---- MODULE Spec2Model ----
(***************************************************************************)
(* Model of the attachment harvester of procore_acc_utilities:             *)
(*   attachment_downloader.py        per-document folders, summary report  *)
(*   "attachment_downloader copy.py" common folder, 401 not recorded       *)
(* Strings are sequences of one-character strings, so that lower-casing,   *)
(* prefix tests, sanitisation, splitext and the numeric suffixes are       *)
(* computed the way the code computes them.                                *)
(***************************************************************************)
EXTENDS Integers, Sequences, FiniteSets, TLC

(***************************************************************************)
(* Characters and strings                                                  *)
(***************************************************************************)
UpperChars == <<"A","B","C","D","E","F","G","H","I","J","K","L","M",
                "N","O","P","Q","R","S","T","U","V","W","X","Y","Z">>

LowerChars == <<"a","b","c","d","e","f","g","h","i","j","k","l","m",
                "n","o","p","q","r","s","t","u","v","w","x","y","z">>

DigitChars == <<"0","1","2","3","4","5","6","7","8","9">>

Range(s) == {s[k] : k \in 1..Len(s)}

\* str.isalnum() for one character of the model's alphabet
IsAlnum(c) == c \in Range(UpperChars) \cup Range(LowerChars) \cup Range(DigitChars)

\* one character of str.lower()
LowerChar(c) ==
  IF c \in Range(UpperChars)
    THEN LowerChars[CHOOSE k \in 1..26 : UpperChars[k] = c]
    ELSE c

\* str.lower()
Lower(s) == [k \in 1..Len(s) |-> LowerChar(s[k])]

\* str.startswith(p)
StartsWith(s, p) == Len(s) >= Len(p) /\ SubSeq(s, 1, Len(p)) = p

\* "".join(c for c in s if Keep(c))
Filter(s, keep) == SelectSeq(s, LAMBDA c : c \in keep)

\* str(n) for a natural number
RECURSIVE ToStr(_)
ToStr(n) ==
  IF n < 10 THEN <<DigitChars[n + 1]>>
  ELSE ToStr(n \div 10) \o <<DigitChars[(n % 10) + 1]>>

\* s.find(p): the first position (from 1) where p occurs in s, 0 when none
Find(s, p) ==
  LET hits == {k \in 1..(Len(s) - Len(p) + 1) : SubSeq(s, k, k + Len(p) - 1) = p}
  IN IF hits = {} THEN 0 ELSE CHOOSE k \in hits : \A m \in hits : k <= m

\* s.rfind(c) for one character: the last position of c in s, 0 when none
RFind(s, c) ==
  LET hits == {k \in 1..Len(s) : s[k] = c}
  IN IF hits = {} THEN 0 ELSE CHOOSE k \in hits : \A m \in hits : k >= m

\* s.strip('"')
RECURSIVE StripQuotes(_)
StripQuotes(s) ==
  IF s = <<>> THEN s
  ELSE IF Head(s) = "\"" THEN StripQuotes(Tail(s))
  ELSE IF s[Len(s)] = "\"" THEN StripQuotes(SubSeq(s, 1, Len(s) - 1))
  ELSE s

\* os.path.splitext on one path component: the extension starts at the last
\* dot unless only dots precede it
splitext(p) ==
  LET d == RFind(p, ".")
  IN IF d > 0 /\ \E k \in 1..(d - 1) : p[k] # "."
       THEN <<SubSeq(p, 1, d - 1), SubSeq(p, d, Len(p))>>
       ELSE <<p, <<>> >>

\* os.path.basename
basename(p) == SubSeq(p, RFind(p, "/") + 1, Len(p))

(***************************************************************************)
(* Inputs: links, server responses, documents                              *)
(***************************************************************************)
LinkMail      == <<"m","a","i","l","t","o",":","x">>
LinkMailUpper == <<"M","a","i","l","T","o",":","x">>
LinkFtp       == <<"f","t","p",":","/","/","h","/","a",".","b">>
LinkA         == <<"h","t","t","p",":","/","/","h","/","a",".","b">>
LinkAUpper    == <<"H","T","T","P","S",":","/","/","h","/","a",".","b">>
LinkN         == <<"h","t","t","p","s",":","/","/","h","/","n">>
LinkC         == <<"h","t","t","p",":","/","/","h","/","c",".","d">>

FilenameEq == <<"f","i","l","e","n","a","m","e","=">>

\* Content-Disposition values; <<>> stands for a response without the header
NoHeader == <<>>
CdAB     == <<"x",";"," ","f","i","l","e","n","a","m","e","=","\"","a",".","b","\"">>

CdPlain       == <<"f","i","l","e","n","a","m","e","=","e",".","f">>
CdTrailing    == CdAB \o <<";"," ","s","=","1">>
CdEmpty       == <<"x",";"," ","f","i","l","e","n","a","m","e","=">>
CdQuotedEmpty == CdEmpty \o <<"\"","\"">>
CdInline      == <<"i","n","l","i","n","e">>

\* Content-Disposition values whose file name is a path
CdDot       == FilenameEq \o <<".">>
CdDotDot    == FilenameEq \o <<"\"", ".", ".", "\"">>
CdSlash     == FilenameEq \o <<"/">>
CdTraversal == FilenameEq \o <<".", ".", "/", "e", ".", "f">>
CdBackslash == FilenameEq \o <<".", ".", "\\", "e">>

LinkD    == <<"h","t","t","p",":","/","/","h","/","d",".","e">>
LinkDots == <<"h","t","t","p",":","/","/","h","/","x","/",".",".">>

\* str(e) of the exceptions
MsgTimeout == <<"t","i","m","e","d"," ","o","u","t">>
MsgReset   == <<"r","e","s","e","t">>
MsgDenied  == <<"d","e","n","i","e","d">>

\* what requests.get and the write that follows can do for one link:
\*   exc    "none", or where the exception is raised: "get" (requests.get),
\*          "open" (open(file_path, 'wb')), "stream" (iter_content / f.write)
\*   status response.status_code;  cd, ctype  the two headers;  msg  str(e)
Response(exc, status, cd, ctype, msg) ==
  [exc |-> exc, status |-> status, cd |-> cd, ctype |-> ctype, msg |-> msg]

Ok(cd, ctype) == Response("none", 200, cd, ctype, <<>>)

ServerResponses(link) ==
  IF link = LinkA
    THEN {Ok(NoHeader, "text/plain"), Response("none", 404, NoHeader, "", <<>>),
          Response("get", 0, NoHeader, "", MsgTimeout)}
  ELSE IF link = LinkAUpper
    THEN {Ok(CdAB, "text/plain"), Response("none", 401, NoHeader, "", <<>>),
          Response("stream", 200, NoHeader, "text/plain", MsgReset)}
  ELSE IF link = LinkC
    THEN {Ok(cd, "text/plain") :
            cd \in {NoHeader, CdAB, CdPlain, CdTrailing, CdEmpty, CdQuotedEmpty, CdInline}}
  ELSE IF link = LinkD
    THEN {Ok(cd, "text/plain") : cd \in {CdDot, CdDotDot, CdSlash, CdTraversal, CdBackslash}}
  ELSE {Ok(NoHeader, "text/plain"), Ok(NoHeader, "application/x-unknown"),
        Response("open", 200, NoHeader, "", MsgDenied)}

(***************************************************************************)
(* download_files_from_links: the pure parts                               *)
(***************************************************************************)
Mailto  == <<"m","a","i","l","t","o",":">>
Http    == <<"h","t","t","p",":","/","/">>
Https   == <<"h","t","t","p","s",":","/","/">>

\* the classification without lower()
LinkClassCaseSensitive(link) ==
  IF StartsWith(link, Mailto) THEN "mailto"
  ELSE IF ~(StartsWith(link, Http) \/ StartsWith(link, Https)) THEN "nonhttp"
  ELSE "get"

\* lines 90-96: "mailto" and "nonhttp" links are skipped, "get" is requested
LinkClass(link) ==
  LET lower_link == Lower(link)
  IN IF StartsWith(lower_link, Mailto) THEN "mailto"
     ELSE IF ~(StartsWith(lower_link, Http) \/ StartsWith(lower_link, Https))
       THEN "nonhttp"
     ELSE "get"

\* mimetypes.guess_extension(content_type); <<>> when it returns None
guess_extension(content_type) ==
  IF content_type = "text/plain" THEN <<".","t","x","t">>
  ELSE IF content_type = "application/pdf" THEN <<".","p","d","f">>
  ELSE <<>>

\* the first position of one of the characters of cs in s, Len(s)+1 when none
FirstOf(s, cs) ==
  LET hits == {k \in 1..Len(s) : s[k] \in cs}
  IN IF hits = {} THEN Len(s) + 1 ELSE CHOOSE k \in hits : \A m \in hits : k <= m

\* urllib.parse.urlparse(link).path of an http(s) link: what follows the
\* network location, up to the fragment and the query
UrlPath(link) ==
  LET afterScheme == SubSeq(link, Find(link, <<":","/","/">>) + 3, Len(link))
      rest        == SubSeq(afterScheme, FirstOf(afterScheme, {"/","?","#"}), Len(afterScheme))
      noFragment  == SubSeq(rest, 1, FirstOf(rest, {"#"}) - 1)
  IN SubSeq(noFragment, 1, FirstOf(noFragment, {"?"}) - 1)

\* lines 100-118: the file name before sanitisation; raises IndexError
\* ([0] of an empty findall) when nothing follows "filename="
ResolveFilename(link, i, resp) ==
  LET at     == Find(resp.cd, FilenameEq)
      value  == SubSeq(resp.cd, at + Len(FilenameEq), Len(resp.cd))
      fromCd == IF resp.cd # <<>> /\ at > 0 THEN StripQuotes(value) ELSE <<>>
      ext    == guess_extension(resp.ctype)
      url_filename == basename(UrlPath(link))
  IN IF resp.cd # <<>> /\ at > 0 /\ value = <<>>
       THEN [raised |-> TRUE, filename |-> <<>>]
     ELSE IF fromCd # <<>>
       THEN [raised |-> FALSE, filename |-> fromCd]
     ELSE IF url_filename # <<>> /\ "." \in Range(url_filename)
       THEN [raised |-> FALSE, filename |-> url_filename]
     ELSE [raised |-> FALSE, filename |-> <<"f","i","l","e","_">> \o ToStr(i) \o ext]

\* line 119 with the path separators kept
SanitizeKeepsSeparators(filename) ==
  Filter(filename, {c \in Range(filename) :
                      IsAlnum(c) \/ c \in {".", "_", "-", " ", "/", "\\"}})

\* line 119
SanitizeDownloadName(filename) ==
  Filter(filename, {c \in Range(filename) : IsAlnum(c) \/ c \in {".", "_", "-", " "}})

\* os.path.exists(os.path.join(download_folder, name)): the empty name, "."
\* and ".." name the folder itself and its parent
ExistsIn(names, name) == name \in names \/ name \in {<<>>, <<".">>, <<".",".">>}

\* lines 121-125: the first free name among name, base_1 ext, base_2 ext, ...
RECURSIVE NextFree(_, _, _, _)
NextFree(names, base, ext, counter) ==
  LET candidate == base \o <<"_">> \o ToStr(counter) \o ext
  IN IF ExistsIn(names, candidate) THEN NextFree(names, base, ext, counter + 1)
     ELSE candidate

\* the name without the collision loop
OverwriteName(names, filename) == filename

UniqueName(names, filename) ==
  IF ExistsIn(names, filename)
    THEN NextFree(names, splitext(filename)[1], splitext(filename)[2], 1)
    ELSE filename

(***************************************************************************)
(* sanitize_filename                                                       *)
(***************************************************************************)
ValidChars == {"-", "_", ".", "(", ")", " "} \cup Range(UpperChars)
                \cup Range(LowerChars) \cup Range(DigitChars)

\* name[:n] of Python, n possibly negative
Prefix(s, n) ==
  IF n >= 0 THEN SubSeq(s, 1, IF n < Len(s) THEN n ELSE Len(s))
  ELSE SubSeq(s, 1, IF Len(s) + n > 0 THEN Len(s) + n ELSE 0)

sanitize_filename(filename, max_length) ==
  LET clean == Filter(filename, ValidChars)
      name  == splitext(clean)[1]
      ext   == splitext(clean)[2]
  IN IF Len(clean) > max_length
       THEN Prefix(name, max_length - Len(ext)) \o ext
       ELSE clean

(***************************************************************************)
(* Documents of the source folder                                          *)
(***************************************************************************)
Document(name, links, corrupt) == [name |-> name, links |-> links, corrupt |-> corrupt]

DocA == Document(<<"A",".","p","d","f">>, <<LinkMail, LinkA, LinkAUpper>>, FALSE)
DocB == Document(<<"A","#",".","p","d","f">>, <<LinkFtp, LinkN>>, FALSE)
DocP == Document(<<"p","d","f","_","2",".","p","d","f">>, <<LinkA>>, FALSE)
DocE == Document(<<"#",".","p","d","f">>, <<LinkMailUpper, LinkN>>, FALSE)
DocX == Document(<<"X",".","p","d","f">>, <<LinkA>>, TRUE)
DocN == Document(<<"N",".","p","d","f">>, <<>>, FALSE)

\* what glob.glob(source_folder/*.pdf) can return
SourceFolders == {<<>>, <<DocA>>, <<DocP, DocB>>, <<DocX, DocE>>, <<DocN, DocB>>}

\* number of runs of the script against the same destination
MaxRuns == 2

\* number of times the environment interferes in one behaviour (a PDF that
\* vanishes after the scan, an os.rename that raises)
MaxEnvFaults == 1

(***************************************************************************)
(* The destination folder                                                  *)
(***************************************************************************)
\* the body of a file: a download (id = <<run, document, link index>>,
\* complete = whole body written) or a report (id = <<run>>, rows)
\* wanted = the sanitized name the download asked for, before the collision loop
Content(type, id, complete, rows, wanted) ==
  [type |-> type, id |-> id, complete |-> complete, rows |-> rows, wanted |-> wanted]

NoContent == Content("none", <<>>, FALSE, <<>>, <<>>)

Dir(files)    == [isdir |-> TRUE, files |-> files, content |-> NoContent]
File(content) == [isdir |-> FALSE, files |-> <<>>, content |-> content]

\* a folder is named by its path below the destination root: <<>> or <<name>>
FolderNames(r, folder) ==
  IF folder = <<>> THEN DOMAIN r ELSE DOMAIN r[folder[1]].files

\* open(os.path.join(folder, name), 'wb') and the writes that follow
WriteFile(r, folder, name, content) ==
  IF folder = <<>> THEN (name :> File(content)) @@ r
  ELSE [r EXCEPT ![folder[1]] = Dir((name :> content) @@ r[folder[1]].files)]

\* os.rename(src, dst) of two names of the root
Rename(r, src, dst) ==
  [n \in (DOMAIN r \ {src}) \cup {dst} |-> IF n = dst THEN r[src] ELSE r[n]]

\* every download body on disk, with the place it is at
DiskFiles(r) ==
  {[folder |-> <<>>, name |-> n, content |-> r[n].content] :
      n \in {m \in DOMAIN r : ~r[m].isdir}}
  \cup UNION {{[folder |-> <<d>>, name |-> n, content |-> r[d].files[n]] :
                 n \in DOMAIN r[d].files} : d \in {m \in DOMAIN r : r[m].isdir}}

FileSummaryCsv == <<"f","i","l","e","_","s","u","m","m","a","r","y",".","c","s","v">>
FailedDownloadsCsv ==
  <<"f","a","i","l","e","d","_","d","o","w","n","l","o","a","d","s",".","c","s","v">>

(***************************************************************************)
(* State                                                                   *)
(***************************************************************************)
VARIABLES
  root,                  \* the destination folder: name -> Dir or File
  pdf_files,             \* the documents of the source folder, in glob order
  run,                   \* number of the current run (0 before the first)
  pc,                    \* "idle", "doc", "links", "report", "done"
  i,                     \* 1-based position in pdf_files (i + 1 of the code)
  j,                     \* enumerate index of the next link (i of download_files_from_links)
  failed,                \* failed_downloads of the current document
  all_failed_downloads,
  file_summary,
  gets,                  \* history: the GET requests issued in this run and their answers
  docState,              \* history: what happened to each document in this run
  downloaded,            \* history: ids of the bodies written completely
  faults,                \* number of environment faults so far
  folderOf,              \* history: the folder each processed document was left in
  source_exists,         \* os.path.exists(source_folder)
  dest_exists,           \* the destination folder has been created
  variant,               \* "off"; "flat": set_custom_attribute.py; "recursive": ..._recursive.py
  sync_pc,               \* position in sync_custom_attribute
  test_project,          \* the documents below the Test folder
  live_project,          \* the documents below the Live folder
  test_items,
  live_items,
  test_values,           \* test_values / test_values_by_keypath, in insertion order
  updates,
  used_live_urns,
  sent                   \* history: the updates posted to the Live project

VARIABLES
  script,                \* "off", or the forms script that runs
  form_pc,               \* position in the script's main
  acc_forms,             \* the forms on the server: id -> status, field value
  candidates,            \* the forms (close_forms) or records (update_field_acc) to process
  form_idx,              \* position in candidates
  original_status,       \* status read from the form details
  attach_count,
  http_log,              \* history: the requests sent, with the answer of the last try
  exit_code              \* what main returned; "raised" when an exception left it

formVars == <<script, form_pc, acc_forms, candidates, form_idx, original_status,
              attach_count, http_log, exit_code>>

VARIABLES
  helper,                \* "off", or the script whose HTTP helper is being called
  helper_pc,             \* "request", "sleep", "returned", "raised"
  attempt,               \* the loop variable of the helper
  resp_status,           \* resp.status_code of the last response; None before the first
  tries,                 \* history: the outcome of every request issued
  result                 \* what the call returned or raised

retryVars == <<helper, helper_pc, attempt, resp_status, tries, result>>

VARIABLES
  walk_pc,               \* "off", "walk", "returned", "raised"
  graph,                 \* the folders of the project: urn -> name, subfolders, items
  stack,                 \* (folder_urn, relative_path) pairs; the top is the last
  visited,
  items_accum,
  listed                 \* history: the (folder_urn, relative_path) pairs listed

walkVars == <<walk_pc, graph, stack, visited, items_accum, listed>>

extraVars == <<retryVars, walkVars>>

moreVars == <<formVars, extraVars>>

syncVars == <<variant, sync_pc, test_project, live_project, test_items, live_items,
              test_values, updates, used_live_urns, sent>>

vars == <<root, pdf_files, run, pc, i, j, failed, all_failed_downloads,
          file_summary, gets, docState, downloaded, faults, folderOf,
          source_exists, dest_exists, syncVars, moreVars>>

None == -1

Unset == <<"?">>

hyperlinks == pdf_files[i].links

pdf_basename == pdf_files[i].name

PositionalName(n) == <<"p","d","f","_">> \o ToStr(n)

StatusText(code) == <<"S","t","a","t","u","s"," ">> \o ToStr(code)

MsgIndexError == <<"l","i","s","t"," ","i","n","d","e","x">>

\* a failure record that loses the error text
FailureRecordNoMessage(link, status_code, error, idx) ==
  [link |-> link, status_code |-> status_code, error |-> <<>>,
   pdf_file |-> Unset, attachments_folder |-> Unset, idx |-> idx]

\* lines 133, 136; idx is history: the enumerate index of the link
FailureRecord(link, status_code, error, idx) ==
  [link |-> link, status_code |-> status_code, error |-> error,
   pdf_file |-> Unset, attachments_folder |-> Unset, idx |-> idx]

\* the downloader before its first run, on a missing source folder
DownloaderOff ==
  /\ root = <<>>
  /\ pdf_files = <<>>
  /\ run = 0
  /\ pc = "idle"
  /\ i = 0
  /\ j = 0
  /\ failed = <<>>
  /\ all_failed_downloads = <<>>
  /\ file_summary = <<>>
  /\ gets = <<>>
  /\ docState = <<>>
  /\ downloaded = {}
  /\ faults = 0
  /\ folderOf = <<>>
  /\ source_exists = FALSE
  /\ dest_exists = FALSE

\* no forms script is running
FormsOff ==
  /\ script = "off"
  /\ form_pc = "off"
  /\ acc_forms = <<>>
  /\ candidates = <<>>
  /\ form_idx = 0
  /\ original_status = ""
  /\ attach_count = 0
  /\ http_log = <<>>
  /\ exit_code = "none"

\* no HTTP helper is being called on its own
RetryOff ==
  /\ helper = "off"
  /\ helper_pc = "off"
  /\ attempt = 0
  /\ resp_status = -1
  /\ tries = <<>>
  /\ result = <<>>

\* no folder walk is running on its own
WalkOff ==
  /\ walk_pc = "off"
  /\ graph = <<>>
  /\ stack = <<>>
  /\ visited = {}
  /\ items_accum = <<>>
  /\ listed = <<>>

ExtrasOff == RetryOff /\ WalkOff

OthersOff == FormsOff /\ ExtrasOff

\* no custom-attribute sync is running
SyncOff ==
  /\ variant = "off"
  /\ sync_pc = "off"
  /\ test_project = <<>>
  /\ live_project = <<>>
  /\ test_items = <<>>
  /\ live_items = <<>>
  /\ test_values = <<>>
  /\ updates = <<>>
  /\ used_live_urns = {}
  /\ sent = <<>>

Init ==
  /\ root = <<>>
  /\ pdf_files \in SourceFolders
  /\ run = 0
  /\ pc = "idle"
  /\ i = 0
  /\ j = 0
  /\ failed = <<>>
  /\ all_failed_downloads = <<>>
  /\ file_summary = <<>>
  /\ gets = <<>>
  /\ docState = <<>>
  /\ downloaded = {}
  /\ faults = 0
  /\ folderOf = <<>>
  /\ source_exists \in BOOLEAN
  /\ source_exists = FALSE => pdf_files = <<>>
  /\ dest_exists = FALSE
  /\ SyncOff
  /\ OthersOff

(***************************************************************************)
(* download_files_from_links: one iteration of the loop over the links     *)
(***************************************************************************)
\* the downloader that swallows an exception raised while the body is streamed
AttemptDropsStreamError(r, folder, link, idx, resp, id, log401) ==
  LET resolved  == ResolveFilename(link, idx, resp)
      filename  == SanitizeDownloadName(resolved.filename)
      file_name == UniqueName(FolderNames(r, folder), filename)
      Fail(code, text) == [root |-> r, records |-> <<FailureRecord(link, code, text, idx)>>,
                           success |-> FALSE]
  IN IF resp.exc = "get" THEN Fail(None, resp.msg)
     ELSE IF resp.status # 200
       THEN IF log401 \/ resp.status # 401
              THEN Fail(resp.status, StatusText(resp.status))
              ELSE [root |-> r, records |-> <<>>, success |-> FALSE]
     ELSE IF resolved.raised THEN Fail(None, MsgIndexError)
     ELSE IF resp.exc = "open" THEN Fail(None, resp.msg)
     ELSE IF resp.exc = "stream"
       THEN [root |-> WriteFile(r, folder, file_name, Content("download", id, FALSE, <<>>, filename)),
             records |-> <<>>, success |-> FALSE]
     ELSE [root |-> WriteFile(r, folder, file_name, Content("download", id, TRUE, <<>>, filename)),
           records |-> <<>>, success |-> TRUE]

\* the effect of lines 97-136 for one requested link: the folder afterwards,
\* the failure records appended and whether a complete body was written
Attempt(r, folder, link, idx, resp, id, log401) ==
  LET resolved  == ResolveFilename(link, idx, resp)
      filename  == SanitizeDownloadName(resolved.filename)
      file_name == UniqueName(FolderNames(r, folder), filename)
      Fail(code, text) == [root |-> r, records |-> <<FailureRecord(link, code, text, idx)>>,
                           success |-> FALSE]
  IN IF resp.exc = "get" THEN Fail(None, resp.msg)
     ELSE IF resp.status # 200
       THEN IF log401 \/ resp.status # 401
              THEN Fail(resp.status, StatusText(resp.status))
              ELSE [root |-> r, records |-> <<>>, success |-> FALSE]
     ELSE IF resolved.raised THEN Fail(None, MsgIndexError)
     ELSE IF resp.exc = "open" THEN Fail(None, resp.msg)
     ELSE IF resp.exc = "stream"
       THEN [root |-> WriteFile(r, folder, file_name, Content("download", id, FALSE, <<>>, filename)),
             records |-> <<FailureRecord(link, None, resp.msg, idx)>>,
             success |-> FALSE]
     ELSE [root |-> WriteFile(r, folder, file_name, Content("download", id, TRUE, <<>>, filename)),
           records |-> <<>>, success |-> TRUE]

download_files_from_links(folder, log401) ==
  /\ pc = "links"
  /\ j < Len(hyperlinks)
  /\ LET link == hyperlinks[j + 1]
     IN IF LinkClass(link) # "get"
          THEN UNCHANGED <<root, failed, gets, downloaded>>
          ELSE \E resp \in ServerResponses(link) :
                 LET a == Attempt(root, folder, link, j, resp, <<run, i, j>>, log401)
                 IN /\ root' = a.root
                    /\ failed' = failed \o a.records
                    /\ gets' = Append(gets, [doc |-> i, idx |-> j, exc |-> resp.exc,
                                              status |-> resp.status, msg |-> resp.msg,
                                              cd |-> resp.cd, ctype |-> resp.ctype])
                    /\ downloaded' = IF a.success THEN downloaded \cup {<<run, i, j>>}
                                     ELSE downloaded
  /\ j' = j + 1
  /\ UNCHANGED <<pdf_files, run, pc, i, all_failed_downloads, file_summary, docState, faults>>
  /\ UNCHANGED <<folderOf, source_exists, dest_exists, syncVars, moreVars>>

(***************************************************************************)
(* attachment_downloader.py: process_pdf_folder                            *)
(***************************************************************************)
SummaryRow(n, name, count) ==
  [file_number |-> n, file_name |-> name, attachments_count |-> count]

\* the loop "for i, pdf_file in enumerate(pdf_files)" moves on
Advance ==
  /\ i' = i + 1
  /\ pc' = IF i + 1 > Len(pdf_files) THEN "report" ELSE "doc"

\* lines 157-170, with the source folder holding at least one PDF
StartRun ==
  /\ pc \in {"idle", "done"}
  /\ run < MaxRuns
  /\ pdf_files # <<>>
  /\ run' = run + 1
  /\ pc' = "doc"
  /\ i' = 1
  /\ j' = 0
  /\ failed' = <<>>
  /\ all_failed_downloads' = <<>>
  /\ file_summary' = <<>>
  /\ gets' = <<>>
  /\ docState' = [k \in 1..Len(pdf_files) |-> "pending"]
  /\ UNCHANGED <<root, pdf_files, downloaded, faults>>
  /\ source_exists
  /\ dest_exists' = TRUE
  /\ UNCHANGED <<folderOf, source_exists, syncVars, moreVars>>

\* lines 160-163: no PDF, the function returns
NoPdfFiles ==
  /\ pc \in {"idle", "done"}
  /\ run < MaxRuns
  /\ pdf_files = <<>>
  /\ run' = run + 1
  /\ pc' = "done"
  /\ UNCHANGED <<root, pdf_files, i, j, failed, all_failed_downloads, file_summary,
                 gets, docState, downloaded, faults>>
  /\ source_exists
  /\ dest_exists' = TRUE
  /\ UNCHANGED <<folderOf, source_exists, syncVars, moreVars>>

\* lines 272-276: the source folder does not exist, process_pdf_folder is
\* not called
MissingSource ==
  /\ pc \in {"idle", "done"}
  /\ run < MaxRuns
  /\ ~source_exists
  /\ run' = run + 1
  /\ pc' = "done"
  /\ UNCHANGED <<root, pdf_files, i, j, failed, all_failed_downloads, file_summary,
                 gets, docState, downloaded, faults, folderOf, source_exists, dest_exists, syncVars, moreVars>>

\* lines 173-175: the PDF vanished after the scan
PdfMissing ==
  /\ pc = "doc"
  /\ faults < MaxEnvFaults
  /\ faults' = faults + 1
  /\ docState' = [docState EXCEPT ![i] = "missing"]
  /\ Advance
  /\ UNCHANGED <<root, pdf_files, run, j, failed, all_failed_downloads, file_summary,
                 gets, downloaded>>
  /\ UNCHANGED <<folderOf, source_exists, dest_exists, syncVars, moreVars>>

\* an open failure that ends the run
ExtractFailsAborts ==
  /\ pc = "doc"
  /\ pdf_files[i].corrupt
  /\ docState' = [docState EXCEPT ![i] = "openfail"]
  /\ pc' = "done"
  /\ UNCHANGED <<root, pdf_files, run, i, j, failed, all_failed_downloads, file_summary,
                 gets, downloaded, faults>>
  /\ UNCHANGED <<folderOf, source_exists, dest_exists, syncVars, moreVars>>

\* an open failure that leaves no summary row
ExtractFailsNoRow ==
  /\ pc = "doc"
  /\ pdf_files[i].corrupt
  /\ docState' = [docState EXCEPT ![i] = "openfail"]
  /\ Advance
  /\ UNCHANGED <<root, pdf_files, run, j, failed, all_failed_downloads, file_summary,
                 gets, downloaded, faults>>
  /\ UNCHANGED <<folderOf, source_exists, dest_exists, syncVars, moreVars>>

\* lines 179, 232-238: fitz.open raises
ExtractFails ==
  /\ pc = "doc"
  /\ pdf_files[i].corrupt
  /\ file_summary' = Append(file_summary, SummaryRow(i, pdf_basename, 0))
  /\ docState' = [docState EXCEPT ![i] = "openfail"]
  /\ Advance
  /\ UNCHANGED <<root, pdf_files, run, j, failed, all_failed_downloads, gets,
                 downloaded, faults>>
  /\ UNCHANGED <<folderOf, source_exists, dest_exists, syncVars, moreVars>>

\* lines 179-181, 223-231: a document without links
NoLinks ==
  /\ pc = "doc"
  /\ ~pdf_files[i].corrupt
  /\ hyperlinks = <<>>
  /\ file_summary' = Append(file_summary, SummaryRow(i, pdf_basename, 0))
  /\ docState' = [docState EXCEPT ![i] = "nolinks"]
  /\ Advance
  /\ UNCHANGED <<root, pdf_files, run, j, failed, all_failed_downloads, gets,
                 downloaded, faults>>
  /\ UNCHANGED <<folderOf, source_exists, dest_exists, syncVars, moreVars>>

\* lines 179-184 and 85-88: the working folder pdf_<i> is created when absent
BeginDownloads ==
  /\ pc = "doc"
  /\ ~pdf_files[i].corrupt
  /\ hyperlinks # <<>>
  /\ root' = IF PositionalName(i) \in DOMAIN root THEN root
             ELSE (PositionalName(i) :> Dir(<<>>)) @@ root
  /\ failed' = <<>>
  /\ j' = 0
  /\ pc' = "links"
  /\ UNCHANGED <<pdf_files, run, i, all_failed_downloads, file_summary, gets,
                 docState, downloaded, faults>>
  /\ UNCHANGED <<folderOf, source_exists, dest_exists, syncVars, moreVars>>

\* the downloader that leaves 401 out of the failure records
DownloadLinkSuppress401 == download_files_from_links(<<PositionalName(i)>>, FALSE)

DownloadLink == download_files_from_links(<<PositionalName(i)>>, TRUE)

\* line 192: max_length of the folder name
MaxFolderNameLength == 80

\* lines 195-199
RECURSIVE NextFreeFolder(_, _, _)
NextFreeFolder(names, base_target, suffix) ==
  LET target_folder == base_target \o <<"_">> \o ToStr(suffix)
  IN IF ExistsIn(names, target_folder) THEN NextFreeFolder(names, base_target, suffix + 1)
     ELSE target_folder

TargetFolder(names, safe_name) ==
  IF ExistsIn(names, safe_name) THEN NextFreeFolder(names, safe_name, 1) ELSE safe_name

\* the failure records of the document not carried over
WithFolderLost(records, name, folder) == <<>>

\* lines 207-209, 218-220
WithFolder(records, name, folder) ==
  [k \in 1..Len(records) |->
     [records[k] EXCEPT !.pdf_file = name, !.attachments_folder = folder]]

\* lines 185-231: the downloads of the document are over; count, rename the
\* working folder, complete the failure records, append the summary row
OrganizeFolder ==
  /\ pc = "links"
  /\ j = Len(hyperlinks)
  /\ LET attachments_subfolder == PositionalName(i)
         successful_downloads  == Len(hyperlinks) - Len(failed)
         pdf_name_no_ext == splitext(pdf_basename)[1]
         sanitized       == sanitize_filename(pdf_name_no_ext, MaxFolderNameLength)
         safe_name       == IF sanitized # <<>> THEN sanitized ELSE PositionalName(i)
         target_folder   == TargetFolder(DOMAIN root, safe_name)
     IN /\ \/ \* the rename succeeds, or there is nothing to rename
              /\ root' = IF root[attachments_subfolder].isdir
                            /\ attachments_subfolder # target_folder
                           THEN Rename(root, attachments_subfolder, target_folder)
                           ELSE root
              /\ all_failed_downloads' = all_failed_downloads \o
                   WithFolder(failed, pdf_basename,
                              IF root[attachments_subfolder].isdir
                                THEN <<target_folder>> ELSE <<attachments_subfolder>>)
              /\ folderOf' = Append(folderOf, [run |-> run, doc |-> i,
                                               folder |-> <<target_folder>>])
              /\ UNCHANGED faults
           \/ \* os.rename raises
              /\ root[attachments_subfolder].isdir
              /\ attachments_subfolder # target_folder
              /\ faults < MaxEnvFaults
              /\ faults' = faults + 1
              /\ all_failed_downloads' = all_failed_downloads \o
                   WithFolder(failed, pdf_basename, <<attachments_subfolder>>)
              /\ folderOf' = Append(folderOf, [run |-> run, doc |-> i,
                                               folder |-> <<attachments_subfolder>>])
              /\ UNCHANGED root
        /\ file_summary' = Append(file_summary,
                                  SummaryRow(i, pdf_basename, successful_downloads))
  /\ docState' = [docState EXCEPT ![i] = "done"]
  /\ Advance
  /\ UNCHANGED <<pdf_files, run, j, failed, gets, downloaded>>
  /\ UNCHANGED <<source_exists, dest_exists, syncVars, moreVars>>

\* DataFrame(...).to_csv(path) in the destination root
to_csv(r, name, type, id, rows) == (name :> File(Content(type, id, TRUE, rows, name))) @@ r

\* the reports with failed_downloads.csv written even when there is no failure
WriteReportsAlways ==
  /\ pc = "report"
  /\ root' = to_csv(to_csv(root, FileSummaryCsv, "summary", <<run>>, file_summary),
                    FailedDownloadsCsv, "failed", <<run>>, all_failed_downloads)
  /\ pc' = "done"
  /\ UNCHANGED <<pdf_files, run, i, j, failed, all_failed_downloads, file_summary,
                 gets, docState, downloaded, faults>>
  /\ UNCHANGED <<folderOf, source_exists, dest_exists, syncVars, moreVars>>

\* lines 240-256
WriteReports ==
  /\ pc = "report"
  /\ LET withSummary == to_csv(root, FileSummaryCsv, "summary", <<run>>, file_summary)
     IN root' = IF all_failed_downloads # <<>>
                  THEN to_csv(withSummary, FailedDownloadsCsv, "failed", <<run>>,
                              all_failed_downloads)
                  ELSE withSummary
  /\ pc' = "done"
  /\ UNCHANGED <<pdf_files, run, i, j, failed, all_failed_downloads, file_summary,
                 gets, docState, downloaded, faults>>
  /\ UNCHANGED <<folderOf, source_exists, dest_exists, syncVars, moreVars>>

Next ==
  \/ StartRun
  \/ NoPdfFiles
  \/ MissingSource
  \/ PdfMissing
  \/ ExtractFails
  \/ NoLinks
  \/ BeginDownloads
  \/ DownloadLink
  \/ OrganizeFolder
  \/ WriteReports

Spec == Init /\ [][Next]_vars

(***************************************************************************)
(* "attachment_downloader copy.py": every download goes into the           *)
(* destination folder itself, 401 is not recorded, there is no summary     *)
(***************************************************************************)
LinkF == <<"h","t","t","p",":","/","/","h","/">> \o FailedDownloadsCsv

DocF == Document(<<"F",".","p","d","f">>, <<LinkF, LinkA>>, FALSE)

SourceFoldersCommon == {<<>>, <<DocA>>, <<DocF>>, <<DocX, DocE>>, <<DocN, DocB>>}

InitCommon ==
  /\ root = <<>>
  /\ pdf_files \in SourceFoldersCommon
  /\ run = 0
  /\ pc = "idle"
  /\ i = 0
  /\ j = 0
  /\ failed = <<>>
  /\ all_failed_downloads = <<>>
  /\ file_summary = <<>>
  /\ gets = <<>>
  /\ docState = <<>>
  /\ downloaded = {}
  /\ faults = 0
  /\ folderOf = <<>>
  /\ source_exists \in BOOLEAN
  /\ source_exists = FALSE => pdf_files = <<>>
  /\ dest_exists = FALSE
  /\ SyncOff
  /\ OthersOff

\* lines 124, 134-135: fitz.open raises, the error is printed
ExtractFailsCommon ==
  /\ pc = "doc"
  /\ pdf_files[i].corrupt
  /\ docState' = [docState EXCEPT ![i] = "openfail"]
  /\ Advance
  /\ UNCHANGED <<root, pdf_files, run, j, failed, all_failed_downloads, file_summary,
                 gets, downloaded, faults>>
  /\ UNCHANGED <<folderOf, source_exists, dest_exists, syncVars, moreVars>>

\* lines 124-125, 132-133
NoLinksCommon ==
  /\ pc = "doc"
  /\ ~pdf_files[i].corrupt
  /\ hyperlinks = <<>>
  /\ docState' = [docState EXCEPT ![i] = "nolinks"]
  /\ Advance
  /\ UNCHANGED <<root, pdf_files, run, j, failed, all_failed_downloads, file_summary,
                 gets, downloaded, faults>>
  /\ UNCHANGED <<folderOf, source_exists, dest_exists, syncVars, moreVars>>

\* lines 124-127 and 31-34: the destination folder exists already
BeginDownloadsCommon ==
  /\ pc = "doc"
  /\ ~pdf_files[i].corrupt
  /\ hyperlinks # <<>>
  /\ failed' = <<>>
  /\ j' = 0
  /\ pc' = "links"
  /\ UNCHANGED <<root, pdf_files, run, i, all_failed_downloads, file_summary, gets,
                 docState, downloaded, faults>>
  /\ UNCHANGED <<folderOf, source_exists, dest_exists, syncVars, moreVars>>

\* the common-folder downloader recording 401 like any other status
DownloadLinkCommonLogs401 == download_files_from_links(<<>>, TRUE)

DownloadLinkCommon == download_files_from_links(<<>>, FALSE)

\* lines 128-131
FinishDocumentCommon ==
  /\ pc = "links"
  /\ j = Len(hyperlinks)
  /\ all_failed_downloads' = all_failed_downloads \o WithFolder(failed, pdf_basename, <<>>)
  /\ docState' = [docState EXCEPT ![i] = "done"]
  /\ Advance
  /\ UNCHANGED <<root, pdf_files, run, j, failed, file_summary, gets, downloaded, faults>>
  /\ folderOf' = Append(folderOf, [run |-> run, doc |-> i, folder |-> <<>>])
  /\ UNCHANGED <<source_exists, dest_exists, syncVars, moreVars>>

\* DataFrame(all_failed_downloads, columns=['pdf_file', 'attachments_folder', 'link'])
ThreeColumns(records) ==
  [k \in 1..Len(records) |->
     [pdf_file |-> records[k].pdf_file,
      attachments_folder |-> records[k].attachments_folder,
      link |-> records[k].link,
      idx |-> records[k].idx]]

\* lines 136-142
WriteReportsCommon ==
  /\ pc = "report"
  /\ root' = IF all_failed_downloads # <<>>
               THEN to_csv(root, FailedDownloadsCsv, "failed", <<run>>,
                           ThreeColumns(all_failed_downloads))
               ELSE root
  /\ pc' = "done"
  /\ UNCHANGED <<pdf_files, run, i, j, failed, all_failed_downloads, file_summary,
                 gets, docState, downloaded, faults>>
  /\ UNCHANGED <<folderOf, source_exists, dest_exists, syncVars, moreVars>>

NextCommon ==
  \/ StartRun
  \/ NoPdfFiles
  \/ MissingSource
  \/ PdfMissing
  \/ ExtractFailsCommon
  \/ NoLinksCommon
  \/ BeginDownloadsCommon
  \/ DownloadLinkCommon
  \/ FinishDocumentCommon
  \/ WriteReportsCommon

SpecCommon == InitCommon /\ [][NextCommon]_vars

(***************************************************************************)
(* Vocabulary of the properties                                            *)
(***************************************************************************)
Docs == 1..Len(pdf_files)

LinkIdx(d) == 0..(Len(pdf_files[d].links) - 1)

LinkOf(d, k) == pdf_files[d].links[k + 1]

\* the links of this run that the download loop has gone past
Processed(d, k) == run >= 1 /\ pc # "idle" /\ d \in DOMAIN docState
                   /\ (docState[d] = "done" \/ (pc = "links" /\ d = i /\ k < j))

\* number of GET requests of this run for link k of document d
Gets(d, k) == Cardinality({n \in 1..Len(gets) : gets[n].doc = d /\ gets[n].idx = k})

\* the failure records of this run for link k of document d
FailureRecordsOf(d, k) ==
  IF pc = "links" /\ d = i
    THEN {n \in 1..Len(failed) : failed[n].idx = k}
    ELSE {n \in 1..Len(all_failed_downloads) :
            /\ all_failed_downloads[n].pdf_file = pdf_files[d].name
            /\ all_failed_downloads[n].idx = k}

FailureRecordOf(d, k) ==
  IF pc = "links" /\ d = i
    THEN failed[CHOOSE n \in FailureRecordsOf(d, k) : TRUE]
    ELSE all_failed_downloads[CHOOSE n \in FailureRecordsOf(d, k) : TRUE]

\* the files on disk that hold the body of link k of document d of this run
FilesOf(d, k) ==
  {f \in DiskFiles(root) : f.content.type = "download" /\ f.content.id = <<run, d, k>>}

Succeeded(d, k) == \E f \in FilesOf(d, k) : f.content.complete

\* the report files, when this run wrote them
SummaryWritten ==
  /\ FileSummaryCsv \in DOMAIN root
  /\ root[FileSummaryCsv].content.type = "summary"
  /\ root[FileSummaryCsv].content.id = <<run>>

FailedWritten ==
  /\ FailedDownloadsCsv \in DOMAIN root
  /\ root[FailedDownloadsCsv].content.type = "failed"
  /\ root[FailedDownloadsCsv].content.id = <<run>>

SummaryRows == root[FileSummaryCsv].content.rows

FailedRows == root[FailedDownloadsCsv].content.rows

UpperChar(c) ==
  IF c \in Range(LowerChars)
    THEN UpperChars[CHOOSE k \in 1..26 : LowerChars[k] = c]
    ELSE c

\* s starts with p, whatever the case of the letters of s
StartsWithAnyCase(s, p) ==
  /\ Len(s) >= Len(p)
  /\ \A k \in 1..Len(p) : s[k] \in {p[k], UpperChar(p[k])}

\* the links the downloader is to leave alone
Unfetchable(link) ==
  \/ StartsWithAnyCase(link, Mailto)
  \/ ~(StartsWithAnyCase(link, Http) \/ StartsWithAnyCase(link, Https))

(***************************************************************************)
(* Properties                                                              *)
(***************************************************************************)
\* C1: in the summary written by a run, the attachments_count of a document
\* is the number of its links whose body was downloaded completely; skipped
\* links are not counted.
C1_CountIsSuccessfulDownloads ==
  (pc = "done" /\ SummaryWritten) =>
    \A n \in 1..Len(SummaryRows) :
      SummaryRows[n].attachments_count =
        Cardinality({k \in LinkIdx(SummaryRows[n].file_number) :
                       Succeeded(SummaryRows[n].file_number, k)})

\* C2: a link that starts with mailto: (in any case) or does not start with
\* http:// or https:// is never requested, gets no file and no failure
\* record; every other link the loop has gone past was requested exactly once.
C2_SkippedLinksUntouched ==
  \A d \in DOMAIN docState : \A k \in LinkIdx(d) :
    IF Unfetchable(LinkOf(d, k))
      THEN Gets(d, k) = 0 /\ FilesOf(d, k) = {} /\ FailureRecordsOf(d, k) = {}
      ELSE Gets(d, k) = (IF Processed(d, k) THEN 1 ELSE 0)

C2_Witness ==
  \E d \in DOMAIN docState :
    /\ \E k \in LinkIdx(d) : Processed(d, k) /\ StartsWithAnyCase(LinkOf(d, k), Mailto)
                             /\ LinkOf(d, k) # Lower(LinkOf(d, k))
    /\ \E k \in LinkIdx(d) : Processed(d, k) /\ ~Unfetchable(LinkOf(d, k))
                             /\ Gets(d, k) = 1

\* the rows of failed_downloads.csv written by this run
RowsOfRun == IF FailedWritten THEN FailedRows ELSE <<>>

RowsOf(d, k) ==
  {n \in 1..Len(RowsOfRun) :
     RowsOfRun[n].pdf_file = pdf_files[d].name /\ RowsOfRun[n].idx = k}

Bit(b) == IF b THEN 1 ELSE 0

\* C3: at the end of a run every link of a downloaded document has exactly
\* one outcome (skipped: never requested; success: complete body on disk;
\* failed: a row of failed_downloads.csv), every row belongs to one link
\* that was requested once and did not succeed, and per document the number
\* of rows is links - successes - skipped.
C3_OneOutcomePerLink ==
  pc = "done" =>
    /\ \A d \in DOMAIN docState : docState[d] = "done" =>
         /\ \A k \in LinkIdx(d) :
              Bit(Gets(d, k) = 0) + Bit(Succeeded(d, k)) + Cardinality(RowsOf(d, k)) = 1
         /\ Cardinality(UNION {RowsOf(d, k) : k \in LinkIdx(d)})
              = Len(pdf_files[d].links)
                - Cardinality({k \in LinkIdx(d) : Succeeded(d, k)})
                - Cardinality({k \in LinkIdx(d) : Gets(d, k) = 0})
    /\ \A n \in 1..Len(RowsOfRun) :
         \E d \in DOMAIN docState : \E k \in LinkIdx(d) :
           /\ docState[d] = "done"
           /\ RowsOf(d, k) = {n}
           /\ RowsOfRun[n].link = LinkOf(d, k)
           /\ Gets(d, k) = 1
           /\ ~Succeeded(d, k)

C3_Witness ==
  /\ pc = "done"
  /\ FailedWritten
  /\ \E d \in DOMAIN docState :
       /\ docState[d] = "done"
       /\ \E k \in LinkIdx(d) : Gets(d, k) = 0
       /\ \E k \in LinkIdx(d) : Succeeded(d, k)
       /\ \E k \in LinkIdx(d) : RowsOf(d, k) # {}

\* the name the collision rule asks for: the wanted name when it is free,
\* else base_k ext for the least k >= 1 that is free
SuffixedName(wanted, k) ==
  IF k = 0 THEN wanted
  ELSE splitext(wanted)[1] \o <<"_">> \o ToStr(k) \o splitext(wanted)[2]

FirstFreeName(names, wanted) ==
  SuffixedName(wanted,
    CHOOSE k \in 0..(Cardinality(names) + 1) :
      /\ ~ExistsIn(names, SuffixedName(wanted, k))
      /\ \A m \in 0..(k - 1) : ExistsIn(names, SuffixedName(wanted, m)))

\* the download of one link writes at most one new file
DownloadStepKeepsFiles ==
  (j' = j + 1) =>
    /\ \A f \in DiskFiles(root) : f \in DiskFiles(root')
    /\ \A f \in DiskFiles(root') \ DiskFiles(root) :
         f.name = FirstFreeName(FolderNames(root, f.folder), f.content.wanted)

EachDownloadHasItsFile ==
  \A id \in downloaded :
    Cardinality({f \in DiskFiles(root) : f.content.type = "download"
                                         /\ f.content.id = id /\ f.content.complete}) = 1

\* C4: a download step leaves every file that was in the destination as it
\* was and puts its body under the first free name among name, base_1 ext,
\* base_2 ext, ...; every completed download has exactly one file of its own.
C4_CollisionSafeNames ==
  [][DownloadStepKeepsFiles]_vars /\ []EachDownloadHasItsFile

NameAB  == <<"a",".","b">>
NameA1B == <<"a","_","1",".","b">>
NameA2B == <<"a","_","2",".","b">>

C4_Witness ==
  \E d \in {m \in DOMAIN root : root[m].isdir} :
    /\ {NameAB, NameA1B, NameA2B} \subseteq DOMAIN root[d].files
    /\ \A n \in {NameAB, NameA1B, NameA2B} :
         root[d].files[n].complete /\ root[d].files[n].wanted = NameAB
    /\ root[d].files[NameAB].id # root[d].files[NameA1B].id
    /\ root[d].files[NameA1B].id # root[d].files[NameA2B].id

\* the body id is on disk in r, complete
OnDisk(r, id) ==
  \E f \in DiskFiles(r) :
    f.content.type = "download" /\ f.content.id = id /\ f.content.complete

\* C5: no step of a later run removes or overwrites a body that an earlier
\* run downloaded completely: it is on disk after the step if it was before.
C5_RerunKeepsEarlierDownloads ==
  [][\A id \in downloaded : (id[1] < run /\ OnDisk(root, id)) => OnDisk(root', id)]_vars

\* the summary has a row for document d
RowsFor(d) == {n \in 1..Len(SummaryRows) : SummaryRows[n].file_number = d}

C7_OpenFailureIsSkipped ==
  pc = "done" =>
    \A d \in DOMAIN docState : docState[d] = "openfail" =>
      /\ SummaryWritten
      /\ \E n \in 1..Len(SummaryRows) :
           /\ RowsFor(d) = {n}
           /\ SummaryRows[n].file_name = pdf_files[d].name
           /\ SummaryRows[n].attachments_count = 0
      /\ \A n \in 1..Len(all_failed_downloads) :
           all_failed_downloads[n].pdf_file # pdf_files[d].name
      /\ \A n \in 1..Len(RowsOfRun) : RowsOfRun[n].pdf_file # pdf_files[d].name
      /\ \A e \in Docs : e > d => docState[e] # "pending"
      /\ all_failed_downloads # <<>> => (FailedWritten /\ FailedRows = all_failed_downloads)

C7_Witness ==
  /\ pc = "done"
  /\ SummaryWritten
  /\ FailedWritten
  /\ \E d \in Docs : docState[d] = "openfail" /\ \E e \in Docs : e > d /\ docState[e] = "done"

\* the links after link k of document d were not given up
LaterLinksProcessed(d, k) ==
  docState[d] = "done" =>
    \A m \in LinkIdx(d) : m > k => Gets(d, m) = Bit(~Unfetchable(LinkOf(d, m)))

\* C8: a link answered with a status other than 200 (401 included) was
\* requested once, has exactly one failure record, which carries the status,
\* has no file, and the links after it are processed.
C8_Non200IsRecordedOnce ==
  \A n \in 1..Len(gets) :
    (gets[n].exc = "none" /\ gets[n].status # 200) =>
      /\ Gets(gets[n].doc, gets[n].idx) = 1
      /\ Cardinality(FailureRecordsOf(gets[n].doc, gets[n].idx)) = 1
      /\ FailureRecordOf(gets[n].doc, gets[n].idx).status_code = gets[n].status
      /\ FailureRecordOf(gets[n].doc, gets[n].idx).link = LinkOf(gets[n].doc, gets[n].idx)
      /\ FilesOf(gets[n].doc, gets[n].idx) = {}
      /\ LaterLinksProcessed(gets[n].doc, gets[n].idx)

C8_Witness ==
  /\ pc = "done"
  /\ \E n \in 1..Len(gets) : gets[n].exc = "none" /\ gets[n].status = 401
  /\ \E n, m \in 1..Len(gets) :
       /\ gets[n].exc = "none" /\ gets[n].status = 404
       /\ gets[m].doc = gets[n].doc /\ gets[m].idx > gets[n].idx

\* C9: a link whose GET or write raised was requested once and has exactly
\* one failure record, with no status code and the message of the exception;
\* the links after it are processed.
C9_ExceptionIsRecordedOnce ==
  \A n \in 1..Len(gets) :
    gets[n].exc # "none" =>
      /\ Gets(gets[n].doc, gets[n].idx) = 1
      /\ Cardinality(FailureRecordsOf(gets[n].doc, gets[n].idx)) = 1
      /\ FailureRecordOf(gets[n].doc, gets[n].idx).status_code = None
      /\ FailureRecordOf(gets[n].doc, gets[n].idx).error = gets[n].msg
      /\ FailureRecordOf(gets[n].doc, gets[n].idx).link = LinkOf(gets[n].doc, gets[n].idx)
      /\ LaterLinksProcessed(gets[n].doc, gets[n].idx)

C9_Witness ==
  /\ pc = "done"
  /\ \E n \in 1..Len(gets) : gets[n].exc = "stream"
  /\ \E n, m \in 1..Len(gets) :
       /\ gets[n].exc = "get"
       /\ gets[m].doc = gets[n].doc /\ gets[m].idx > gets[n].idx

\* C10: after a run, failed_downloads.csv is in the destination root exactly
\* when the run has at least one failure record, and then it holds one row
\* per record.
C10_FailureFileSignalsFailure ==
  (pc = "done" /\ pdf_files # <<>>) =>
    /\ (FailedDownloadsCsv \in DOMAIN root) <=> (all_failed_downloads # <<>>)
    /\ all_failed_downloads # <<>> => FailedRows = all_failed_downloads

\* C10 as amended, the state part: the run wrote the file exactly when it has
\* a failure record; a file found after a run with no failure is an older one
FailureFileWrittenIffFailures ==
  (pc = "done" /\ pdf_files # <<>>) =>
    /\ FailedWritten <=> (all_failed_downloads # <<>>)
    /\ FailedWritten => FailedRows = all_failed_downloads
    /\ (run = 1 /\ FailedDownloadsCsv \in DOMAIN root) => all_failed_downloads # <<>>

\* C10 as amended, the step part: writing the reports of a run without
\* failure neither creates nor changes nor removes failed_downloads.csv
NoFailureLeavesFileAlone ==
  (pc = "report" /\ all_failed_downloads = <<>>) =>
    /\ (FailedDownloadsCsv \in DOMAIN root') <=> (FailedDownloadsCsv \in DOMAIN root)
    /\ FailedDownloadsCsv \in DOMAIN root =>
         root'[FailedDownloadsCsv] = root[FailedDownloadsCsv]

C10_FailureFileWrittenOnlyOnFailure ==
  []FailureFileWrittenIffFailures /\ [][NoFailureLeavesFileAlone]_vars

C10_Witness ==
  /\ pc = "done"
  /\ run = 2
  /\ all_failed_downloads = <<>>
  /\ FailedDownloadsCsv \in DOMAIN root
  /\ root[FailedDownloadsCsv].content.id = <<1>>

\* the step that ends a document in per-document mode (OrganizeFolder)
OrganizeStep == pc = "links" /\ j = Len(hyperlinks) /\ pc' \in {"doc", "report"}

\* the sanitized base name of the current document is empty
EmptySafeName ==
  sanitize_filename(splitext(pdf_basename)[1], MaxFolderNameLength) = <<>>

\* C11: when the sanitized base name of a document is empty, its working
\* folder pdf_<ordinal> is kept under that name: organizing the document
\* leaves the destination as it is and the document ends in pdf_<ordinal>.
C11_EmptyNameKeepsPositionalFolder ==
  [][(OrganizeStep /\ EmptySafeName) =>
       /\ root' = root
       /\ folderOf'[Len(folderOf')].folder = <<PositionalName(i)>>]_vars

\* organizing a document moves its working folder only: every other name of
\* the destination keeps its content and no name disappears under the target
RenameTargetsFreeName ==
  OrganizeStep =>
    /\ \A n \in DOMAIN root \ {PositionalName(i)} : n \in DOMAIN root' /\ root'[n] = root[n]
    /\ Cardinality(DOMAIN root') = Cardinality(DOMAIN root)
    /\ \A n \in DOMAIN root' \ DOMAIN root : root'[n] = root[PositionalName(i)]

\* the folders of the destination that hold the body of a download
FolderHolding(id) ==
  {f.folder : f \in {g \in DiskFiles(root) :
                        g.content.type = "download" /\ g.content.id = id}}

\* the downloads of two documents (of one run or of two) are in folders of
\* different names
FinalFoldersDistinct ==
  \A a, b \in downloaded :
    <<a[1], a[2]>> # <<b[1], b[2]>> => FolderHolding(a) \cap FolderHolding(b) = {}

\* C12: the rename after a document's downloads never targets an existing
\* path, so no existing folder is replaced or merged into, and the final
\* folder names of the processed documents are pairwise distinct.
C12_RenameNeverTargetsExisting ==
  [][RenameTargetsFreeName]_vars /\ []FinalFoldersDistinct

\* the step of OrganizeFolder in which os.rename raised
RenameFails == OrganizeStep /\ faults' # faults

\* C13: when renaming a document's working folder fails, the destination is
\* left as it was (the working folder with its files stays in place) and
\* every failure record of the document is kept, in order, with the
\* document's name and the working folder pdf_<ordinal> as its folder.
C13_RenameFailureKeepsFolderAndRecords ==
  [][RenameFails =>
       /\ root' = root
       /\ root[PositionalName(i)].isdir
       /\ Len(all_failed_downloads') = Len(all_failed_downloads) + Len(failed)
       /\ \A k \in 1..Len(all_failed_downloads) :
            all_failed_downloads'[k] = all_failed_downloads[k]
       /\ \A k \in 1..Len(failed) :
            LET rec == all_failed_downloads'[Len(all_failed_downloads) + k]
            IN /\ rec.link = failed[k].link
               /\ rec.status_code = failed[k].status_code
               /\ rec.error = failed[k].error
               /\ rec.pdf_file = pdf_basename
               /\ rec.attachments_folder = <<PositionalName(i)>>]_vars

\* a document of this run whose rename failed: it is left in pdf_<ordinal>
\* with a download in it, and a failure record of it names that folder
C13_Witness ==
  \E n \in 1..Len(folderOf) :
    /\ folderOf[n].run = run
    /\ faults = 1
    /\ folderOf[n].folder = <<PositionalName(folderOf[n].doc)>>
    /\ \E k \in 1..Len(all_failed_downloads) :
         /\ all_failed_downloads[k].attachments_folder = folderOf[n].folder
         /\ all_failed_downloads[k].pdf_file = pdf_files[folderOf[n].doc].name
    /\ \E id \in downloaded :
         /\ id[1] = run /\ id[2] = folderOf[n].doc
         /\ FolderHolding(id) = {folderOf[n].folder}

\* C14: when the reports are written, every row of failed_downloads.csv names
\* a folder that exists in the destination and is the folder holding the
\* downloads of the row's document, whatever was processed after it.
C14_FailedRowsNameFinalFolder ==
  (pc = "done" /\ FailedWritten) =>
    \A n \in 1..Len(FailedRows) :
      LET row == FailedRows[n]
          at  == row.attachments_folder
      IN /\ at # <<>>
         /\ at[1] \in DOMAIN root
         /\ root[at[1]].isdir
         /\ \A id \in downloaded :
              (id[1] = run /\ pdf_files[id[2]].name = row.pdf_file /\ OnDisk(root, id))
                => FolderHolding(id) = {at}

(***************************************************************************)
(* Documents with long names: one PDF <stem>[.<tail>].pdf per source        *)
(* folder, with one link                                                    *)
(***************************************************************************)
Repeat(c, n) == [k \in 1..n |-> c]

DotPdf == <<".", "p", "d", "f">>

\* lengths around max_length=80; a name found by glob("*.pdf") does not start
\* with a dot, so the stem is not empty
StemLengths == {1, 2, 79, 80, 81}
TailLengths == {0, 1, 78, 79, 80, 81}

LongNames ==
  {Repeat("a", n) \o DotPdf : n \in StemLengths}
  \cup {Repeat("a", n) \o <<".">> \o Repeat("b", m) \o DotPdf :
          n \in StemLengths, m \in TailLengths}

SourceFoldersLongNames == {<<Document(name, <<LinkA>>, FALSE)>> : name \in LongNames}

InitLongNames ==
  /\ root = <<>>
  /\ pdf_files \in SourceFoldersLongNames
  /\ run = 0
  /\ pc = "idle"
  /\ i = 0
  /\ j = 0
  /\ failed = <<>>
  /\ all_failed_downloads = <<>>
  /\ file_summary = <<>>
  /\ gets = <<>>
  /\ docState = <<>>
  /\ downloaded = {}
  /\ faults = 0
  /\ folderOf = <<>>
  /\ source_exists = TRUE
  /\ dest_exists = FALSE
  /\ SyncOff
  /\ OthersOff

NextLongNames ==
  \/ StartRun
  \/ PdfMissing
  \/ BeginDownloads
  \/ DownloadLink
  \/ OrganizeFolder
  \/ WriteReports

SpecLongNames == InitLongNames /\ [][NextLongNames]_vars

\* C15: the folder name that sanitize_filename(base name, max_length=80)
\* gives for the document being processed has at most 80 characters, and so
\* has the folder the document is left in when that name was free.
C15_FolderNameAtMost80 ==
  /\ pc = "links" =>
       Len(sanitize_filename(splitext(pdf_basename)[1], MaxFolderNameLength))
         <= MaxFolderNameLength
  /\ \A n \in 1..Len(folderOf) :
       (folderOf[n].run = 1 /\ folderOf[n].folder # <<PositionalName(folderOf[n].doc)>>)
         => Len(folderOf[n].folder[1]) <= MaxFolderNameLength

\* C16: a run on a missing source folder, or on one without any PDF, ends
\* without output: no link was requested, the destination folder was not
\* created and holds nothing, and no report was written.
C16_NoInputNoOutput ==
  (pc = "done" /\ (~source_exists \/ pdf_files = <<>>)) =>
    /\ gets = <<>>
    /\ downloaded = {}
    /\ ~dest_exists
    /\ root = <<>>

(***************************************************************************)
(* A run that can be interrupted from the keyboard                          *)
(***************************************************************************)
\* KeyboardInterrupt raised while the loop over the documents runs: it is not
\* an Exception, so no handler of lines 134, 215, 232 or 283 catches it and
\* the process ends where it is
KeyboardInterrupt ==
  /\ pc \in {"doc", "links"}
  /\ pc' = "interrupted"
  /\ UNCHANGED <<root, pdf_files, run, i, j, failed, all_failed_downloads, file_summary,
                 gets, docState, downloaded, faults, folderOf, source_exists, dest_exists, syncVars, moreVars>>

NextInterrupt ==
  \/ StartRun
  \/ NoPdfFiles
  \/ MissingSource
  \/ PdfMissing
  \/ ExtractFails
  \/ NoLinks
  \/ BeginDownloads
  \/ DownloadLink
  \/ OrganizeFolder
  \/ WriteReports
  \/ KeyboardInterrupt

SpecInterrupt == Init /\ [][NextInterrupt]_vars

\* C17: when a run was interrupted while documents were being processed, the
\* summary rows and the failure records accumulated so far have been written
\* to the report files of this run.
C17_InterruptFlushesReports ==
  pc = "interrupted" =>
    /\ file_summary # <<>> => (SummaryWritten /\ SummaryRows = file_summary)
    /\ all_failed_downloads # <<>> =>
         (FailedWritten /\ Len(FailedRows) = Len(all_failed_downloads))

\* the request of the download step just taken, and what the downloader of
\* attachment_downloader.py does with the same link, response and folder
LastGet == gets'[Len(gets')]

LastResponse == Response(LastGet.exc, LastGet.status, LastGet.cd, LastGet.ctype, LastGet.msg)

PerDocumentAttempt ==
  Attempt(root, <<>>, hyperlinks[j + 1], j, LastResponse, <<run, i, j>>, TRUE)

\* C18: in the common-folder variant a link answered 401 leaves neither a
\* file nor a failure record, any other non-200 status leaves exactly one
\* failure record, and for every request the records and files are those of
\* the per-document variant's downloader without its 401 records.
C18_Only401IsSuppressed ==
  [][(pc = "links" /\ gets' # gets) =>
       /\ (LastGet.exc # "get" /\ LastGet.status = 401) =>
            (failed' = failed /\ root' = root /\ downloaded' = downloaded)
       /\ (LastGet.exc # "get" /\ LastGet.status \notin {200, 401}) =>
            /\ Len(failed') = Len(failed) + 1
            /\ failed'[Len(failed')].status_code = LastGet.status
            /\ failed'[Len(failed')].link = hyperlinks[j + 1]
            /\ root' = root
       /\ failed' = failed \o SelectSeq(PerDocumentAttempt.records,
                                        LAMBDA rec : rec.status_code # 401)
       /\ root' = PerDocumentAttempt.root]_vars

\* a document whose links were answered 401 and 404: only the 404 is recorded
C18_Witness ==
  /\ pc = "links"
  /\ \E a, b \in 1..Len(gets) :
       /\ gets[a].doc = i /\ gets[a].exc # "get" /\ gets[a].status = 401
       /\ gets[b].doc = i /\ gets[b].exc # "get" /\ gets[b].status = 404
  /\ Len(failed) = 1
  /\ failed[1].status_code = 404

(***************************************************************************)
(* Documents whose link is answered with the Content-Disposition headers    *)
(***************************************************************************)
DocC == Document(<<"C",".","p","d","f">>, <<LinkC, LinkN>>, FALSE)

SourceFoldersHeaders == {<<DocC>>, <<DocX, DocC>>}

InitHeaders ==
  /\ root = <<>>
  /\ pdf_files \in SourceFoldersHeaders
  /\ run = 0
  /\ pc = "idle"
  /\ i = 0
  /\ j = 0
  /\ failed = <<>>
  /\ all_failed_downloads = <<>>
  /\ file_summary = <<>>
  /\ gets = <<>>
  /\ docState = <<>>
  /\ downloaded = {}
  /\ faults = 0
  /\ folderOf = <<>>
  /\ source_exists = TRUE
  /\ dest_exists = FALSE
  /\ SyncOff
  /\ OthersOff

NextHeaders ==
  \/ StartRun
  \/ PdfMissing
  \/ ExtractFails
  \/ BeginDownloads
  \/ DownloadLink
  \/ OrganizeFolder
  \/ WriteReports

SpecHeaders == InitHeaders /\ [][NextHeaders]_vars

\* the value of the filename parameter of a Content-Disposition header: what
\* follows "filename=" up to the next ";", without the quotes around it;
\* <<>> when the header has no such value
HeaderFilename(cd) ==
  LET at   == Find(cd, FilenameEq)
      rest == SubSeq(cd, at + Len(FilenameEq), Len(cd))
  IN IF at = 0 THEN <<>>
     ELSE StripQuotes(SubSeq(rest, 1, FirstOf(rest, {";"}) - 1))

\* the name by priority: header value, URL basename with a dot, file_<index>
NameByPriority(link, idx, cd, ctype) ==
  IF HeaderFilename(cd) # <<>> THEN HeaderFilename(cd)
  ELSE IF basename(UrlPath(link)) # <<>> /\ "." \in Range(basename(UrlPath(link)))
    THEN basename(UrlPath(link))
  ELSE <<"f","i","l","e","_">> \o ToStr(idx) \o guess_extension(ctype)

NameChars == Range(UpperChars) \cup Range(LowerChars) \cup Range(DigitChars)
               \cup {".", "_", "-", " "}

\* C19: every file downloaded in this run was asked for under the name chosen
\* by priority (Content-Disposition filename= value, else URL basename with a
\* dot, else file_<index> plus the Content-Type extension), reduced to
\* alphanumerics, '.', '_', '-' and space.
C19_NameByStrictPriority ==
  pc # "idle" =>
    \A f \in DiskFiles(root) :
      (f.content.type = "download" /\ f.content.id[1] = run) =>
        \A n \in 1..Len(gets) :
          (gets[n].doc = f.content.id[2] /\ gets[n].idx = f.content.id[3]) =>
            f.content.wanted =
              Filter(NameByPriority(LinkOf(gets[n].doc, gets[n].idx), gets[n].idx,
                                    gets[n].cd, gets[n].ctype), NameChars)

(***************************************************************************)
(* set_custom_attribute.py and set_custom_attribute_recursive.py: the sync  *)
(* of one custom attribute from the Test project to the Live project        *)
(***************************************************************************)
\* Optional[str]: None or a string
NoValue   == [none |-> TRUE, text |-> <<>>]
Str(text) == [none |-> FALSE, text |-> text]

\* a document of a project: its lineage urn, the path of its folder below the
\* synced folder, its display name, the value of the custom attribute
ProjectDoc(id, path, name, value) == [id |-> id, path |-> path, name |-> name, value |-> value]

Values == {NoValue, Str(<<>>), Str(<<"v">>)}

TestProjects ==
  {<<ProjectDoc("t1", <<>>, <<"A">>, v1), ProjectDoc("t2", p, n, v2)>> :
     v1 \in Values, v2 \in Values, p \in {<<>>, <<"f">>}, n \in {<<"a">>, <<"b">>}}

LiveProjects ==
  {<<ProjectDoc("l1", <<>>, <<"A">>, NoValue), ProjectDoc("l2", p, n, NoValue)>> :
     p \in {<<>>, <<"g">>}, n \in {<<"a">>, <<"b">>}}

\* str.strip() of blanks
RECURSIVE Strip(_)
Strip(s) ==
  IF s = <<>> THEN s
  ELSE IF Head(s) = " " THEN Strip(Tail(s))
  ELSE IF s[Len(s)] = " " THEN Strip(SubSeq(s, 1, Len(s) - 1))
  ELSE s

\* f"{rel_path}/{name}" if rel_path else name
KeyPath(rel_path, name) == IF rel_path # <<>> THEN rel_path \o <<"/">> \o name ELSE name

\* an item of a listing, with the annotations of gather_all_items_recursive
Item(d) == [id |-> d.id, displayName |-> d.name,
            keyPath |-> KeyPath(d.path, d.name), nameLower |-> Lower(Strip(d.name))]

\* the items of the folder itself
list_folder_items_v2(project) ==
  [k \in 1..Len(SelectSeq(project, LAMBDA d : d.path = <<>>)) |->
     Item(SelectSeq(project, LAMBDA d : d.path = <<>>)[k])]

\* the items of the folder and of its subfolders
gather_all_items_recursive(project) == [k \in 1..Len(project) |-> Item(project[k])]

\* the records of the documents with the given urns, in the order asked
batch_get_documents(project, urns) ==
  [k \in 1..Len(urns) |->
     LET d == CHOOSE x \in Range(project) : x.id = urns[k]
     IN [urn |-> d.id, name |-> d.name, value |-> d.value]]

\* a dict in insertion order: a sequence of entries with distinct keys
Has(d, key) == \E k \in 1..Len(d) : d[k].key = key

Get(d, key) == d[CHOOSE k \in 1..Len(d) : d[k].key = key].value

Put(d, key, value) ==
  IF Has(d, key)
    THEN [k \in 1..Len(d) |-> IF d[k].key = key THEN [key |-> key, value |-> value] ELSE d[k]]
    ELSE Append(d, [key |-> key, value |-> value])

\* by_name of build_name_to_item_map after the first n items: first one kept
RECURSIVE build_name_to_item_map(_, _)
build_name_to_item_map(items, n) ==
  IF n = 0 THEN <<>>
  ELSE LET by_name == build_name_to_item_map(items, n - 1)
           name    == items[n].displayName
           key     == Lower(Strip(name))
       IN IF name = <<>> \/ Has(by_name, key) THEN by_name
          ELSE Put(by_name, key, items[n])

Update(urn, value) == [documentUrn |-> urn, value |-> value]

\* set_custom_attribute.py lines 317-330: test_values after the first n results
RECURSIVE TestValuesByName(_, _)
TestValuesByName(test_details, n) ==
  IF n = 0 THEN <<>>
  ELSE LET test_values_so_far == TestValuesByName(test_details, n - 1)
           key == Lower(Strip(test_details[n].name))
           val == test_details[n].value
       IN IF val.none \/ val.text = <<>> THEN test_values_so_far
          ELSE Put(test_values_so_far, key, val.text)

\* set_custom_attribute.py lines 332-346: updates after the first n entries
RECURSIVE UpdatesByName(_, _, _)
UpdatesByName(values, live_by_name, n) ==
  IF n = 0 THEN <<>>
  ELSE LET so_far == UpdatesByName(values, live_by_name, n - 1)
       IN IF ~Has(live_by_name, values[n].key) THEN so_far
          ELSE Append(so_far, Update(Get(live_by_name, values[n].key).id, values[n].value))

\* set_custom_attribute_recursive.py lines 410-424: test_values_by_keypath
\* after the first n results; None becomes "", the first value of a path stays
RECURSIVE TestValuesByKeypath(_, _, _)
TestValuesByKeypath(items, test_details, n) ==
  IF n = 0 THEN <<>>
  ELSE LET so_far   == TestValuesByKeypath(items, test_details, n - 1)
           item     == CHOOSE it \in Range(items) : it.id = test_details[n].urn
           key_path == item.keyPath
           val      == IF test_details[n].value.none THEN <<>> ELSE test_details[n].value.text
       IN IF key_path # <<>> /\ ~Has(so_far, key_path)
            THEN Put(so_far, key_path, val)
            ELSE so_far

\* line 429: the dict comprehension, the last item of a path stays
RECURSIVE LiveByKeypath(_, _)
LiveByKeypath(items, n) ==
  IF n = 0 THEN <<>>
  ELSE IF items[n].keyPath = <<>> THEN LiveByKeypath(items, n - 1)
  ELSE Put(LiveByKeypath(items, n - 1), items[n].keyPath, items[n])

\* lines 431-443, phase A: the updates after the first n entries
RECURSIVE PhaseAUpdates(_, _, _)
PhaseAUpdates(values, live_by_keypath, n) ==
  IF n = 0 THEN <<>>
  ELSE LET so_far == PhaseAUpdates(values, live_by_keypath, n - 1)
       IN IF ~Has(live_by_keypath, values[n].key) THEN so_far
          ELSE Append(so_far, Update(Get(live_by_keypath, values[n].key).id, values[n].value))

\* the order of Python strings over the characters of the names
AsciiOrder == <<" ", "-", ".", "/">> \o DigitChars \o UpperChars \o <<"_">> \o LowerChars

Code(c) == CHOOSE k \in 1..Len(AsciiOrder) : AsciiOrder[k] = c

SeqLess(s, t) ==
  LET m     == IF Len(s) < Len(t) THEN Len(s) ELSE Len(t)
      diffs == {k \in 1..m : s[k] # t[k]}
  IN IF diffs = {} THEN Len(s) < Len(t)
     ELSE LET k == CHOOSE d \in diffs : \A e \in diffs : d <= e
          IN Code(s[k]) < Code(t[k])

\* list.sort(key=lambda x: str(x.get("keyPath"))): stable
RECURSIVE SortByKeyPath(_, _)
SortByKeyPath(list, n) ==
  IF n = 0 THEN <<>>
  ELSE LET sorted == SortByKeyPath(list, n - 1)
           at     == Cardinality({k \in 1..Len(sorted) :
                                    ~SeqLess(list[n].keyPath, sorted[k].keyPath)})
       IN SubSeq(sorted, 1, at) \o <<list[n]>> \o SubSeq(sorted, at + 1, Len(sorted))

\* lines 446-455: the items by lower-case name, each list in keyPath order
RECURSIVE GroupUnsorted(_, _)
GroupUnsorted(items, n) ==
  IF n = 0 THEN <<>>
  ELSE LET g  == GroupUnsorted(items, n - 1)
           nm == IF Lower(Strip(items[n].nameLower)) # <<>>
                   THEN Lower(Strip(items[n].nameLower))
                   ELSE Lower(Strip(items[n].displayName))
       IN Put(g, nm, (IF Has(g, nm) THEN Get(g, nm) ELSE <<>>) \o <<items[n]>>)

group_by_name(items) ==
  LET g == GroupUnsorted(items, Len(items))
  IN [k \in 1..Len(g) |->
        [key |-> g[k].key, value |-> SortByKeyPath(g[k].value, Len(g[k].value))]]

\* lines 460-484, phase B: updates and used_live_urns after the first n names
RECURSIVE PhaseB(_, _, _, _, _)
PhaseB(test_group, live_group, values, used, n) ==
  IF n = 0 THEN [updates |-> <<>>, used |-> used]
  ELSE LET so_far    == PhaseB(test_group, live_group, values, used, n - 1)
           name_key  == test_group[n].key
           test_list == test_group[n].value
           live_list == IF Has(live_group, name_key)
                          THEN SelectSeq(Get(live_group, name_key),
                                         LAMBDA it : it.id \notin so_far.used)
                          ELSE <<>>
           count     == IF Len(test_list) < Len(live_list) THEN Len(test_list)
                        ELSE Len(live_list)
           pairs     == [k \in 1..count |->
                           Update(live_list[k].id,
                                  IF Has(values, test_list[k].keyPath)
                                    THEN Get(values, test_list[k].keyPath) ELSE <<>>)]
       IN [updates |-> so_far.updates \o pairs,
           used    |-> so_far.used \cup {pairs[k].documentUrn : k \in 1..count}]

downloaderVars == <<root, pdf_files, run, pc, i, j, failed, all_failed_downloads,
                    file_summary, gets, docState, downloaded, faults, folderOf,
                    source_exists, dest_exists>>

InitSync ==
  /\ root = <<>>
  /\ pdf_files = <<>>
  /\ run = 0
  /\ pc = "idle"
  /\ i = 0
  /\ j = 0
  /\ failed = <<>>
  /\ all_failed_downloads = <<>>
  /\ file_summary = <<>>
  /\ gets = <<>>
  /\ docState = <<>>
  /\ downloaded = {}
  /\ faults = 0
  /\ folderOf = <<>>
  /\ source_exists = FALSE
  /\ dest_exists = FALSE
  /\ variant \in {"flat", "recursive"}
  /\ sync_pc = "start"
  /\ test_project \in TestProjects
  /\ live_project \in LiveProjects
  /\ test_items = <<>>
  /\ live_items = <<>>
  /\ test_values = <<>>
  /\ updates = <<>>
  /\ used_live_urns = {}
  /\ sent = <<>>
  /\ OthersOff

\* the two listings
ListItems ==
  /\ sync_pc = "start"
  /\ test_items' = IF variant = "flat" THEN list_folder_items_v2(test_project)
                   ELSE gather_all_items_recursive(test_project)
  /\ live_items' = IF variant = "flat" THEN list_folder_items_v2(live_project)
                   ELSE gather_all_items_recursive(live_project)
  /\ sync_pc' = "listed"
  /\ UNCHANGED <<variant, test_project, live_project, test_values, updates,
                 used_live_urns, sent, downloaderVars, moreVars>>

\* the batch-get of the Test documents and the map of their values
ReadTestValues ==
  /\ sync_pc = "listed"
  /\ LET test_by_name == build_name_to_item_map(test_items, Len(test_items))
         test_urns == IF variant = "flat"
                        THEN [k \in 1..Len(test_by_name) |-> test_by_name[k].value.id]
                        ELSE [k \in 1..Len(test_items) |-> test_items[k].id]
         test_details == batch_get_documents(test_project, test_urns)
     IN test_values' = IF variant = "flat"
                         THEN TestValuesByName(test_details, Len(test_details))
                         ELSE TestValuesByKeypath(test_items, test_details, Len(test_details))
  /\ sync_pc' = "values"
  /\ UNCHANGED <<variant, test_project, live_project, test_items, live_items, updates,
                 used_live_urns, sent, downloaderVars, moreVars>>

\* set_custom_attribute.py: the updates by file name
PrepareUpdates ==
  /\ sync_pc = "values"
  /\ variant = "flat"
  /\ updates' = UpdatesByName(test_values,
                              build_name_to_item_map(live_items, Len(live_items)),
                              Len(test_values))
  /\ sync_pc' = "prepared"
  /\ UNCHANGED <<variant, test_project, live_project, test_items, live_items, test_values,
                 used_live_urns, sent, downloaderVars, moreVars>>

\* set_custom_attribute_recursive.py, phase A: the updates by exact keyPath
PhaseAMatch ==
  /\ sync_pc = "values"
  /\ variant = "recursive"
  /\ updates' = PhaseAUpdates(test_values, LiveByKeypath(live_items, Len(live_items)),
                              Len(test_values))
  /\ used_live_urns' = {updates'[k].documentUrn : k \in 1..Len(updates')}
  /\ sync_pc' = "phaseA"
  /\ UNCHANGED <<variant, test_project, live_project, test_items, live_items, test_values,
                 sent, downloaderVars, moreVars>>

\* phase B: the remaining Live items paired by file name
PhaseBFallback ==
  /\ sync_pc = "phaseA"
  /\ LET test_group == group_by_name(test_items)
         live_group == group_by_name(SelectSeq(live_items,
                                               LAMBDA it : it.id \notin used_live_urns))
         b == PhaseB(test_group, live_group, test_values, used_live_urns, Len(test_group))
     IN /\ updates' = updates \o b.updates
        /\ used_live_urns' = b.used
  /\ sync_pc' = "prepared"
  /\ UNCHANGED <<variant, test_project, live_project, test_items, live_items, test_values,
                 sent, downloaderVars, moreVars>>

\* "No updates to apply."
NoUpdates ==
  /\ sync_pc = "prepared"
  /\ updates = <<>>
  /\ sync_pc' = "done"
  /\ UNCHANGED <<variant, test_project, live_project, test_items, live_items, test_values,
                 updates, used_live_urns, sent, downloaderVars, moreVars>>

\* batch_update_custom_attributes(LIVE_PROJECT_ID, updates)
ApplyUpdates ==
  /\ sync_pc = "prepared"
  /\ updates # <<>>
  /\ sent' = updates
  /\ sync_pc' = "done"
  /\ UNCHANGED <<variant, test_project, live_project, test_items, live_items, test_values,
                 updates, used_live_urns, downloaderVars, moreVars>>

NextSync ==
  \/ ListItems
  \/ ReadTestValues
  \/ PrepareUpdates
  \/ PhaseAMatch
  \/ PhaseBFallback
  \/ NoUpdates
  \/ ApplyUpdates

SpecSync == InitSync /\ [][NextSync]_vars

\* C20: no update posted to the Live project carries a missing or empty
\* value: every one has the non-empty value of a Test document.
C20_NoUpdateForEmptyValue ==
  \A k \in 1..Len(sent) :
    /\ sent[k].value # <<>>
    /\ \E d \in Range(test_project) : d.value = Str(sent[k].value)

(***************************************************************************)
(* The forms scripts: close_forms.py, update_field_acc.py and               *)
(* update_desclaimer_comment.py                                             *)
(***************************************************************************)
\* a request as _retryable_request sends it, with the status code of the
\* response it returns and, for a list answer, the number of its items
Request(method, what, form, body, code, items) ==
  [method |-> method, what |-> what, form |-> form, body |-> body,
   code |-> code, items |-> items]

\* a form on the server; id "" stands for a list item without an id
Form(id, status, textVal) == [id |-> id, status |-> status, textVal |-> textVal]

SetStatus(forms, id, status) ==
  [n \in 1..Len(forms) |-> IF forms[n].id = id THEN [forms[n] EXCEPT !.status = status]
                           ELSE forms[n]]

\* the loop over the candidates moves on; main returns code after the last
FormAdvance(code) ==
  /\ form_idx' = form_idx + 1
  /\ form_pc' = IF form_idx + 1 > Len(candidates) THEN "done" ELSE "form"
  /\ exit_code' = IF form_idx + 1 > Len(candidates) THEN code ELSE exit_code

(***************************************************************************)
(* close_forms.py                                                           *)
(***************************************************************************)
MaxAttachments == 3

\* the answers of the attachments API: a list of items, or an error status
AttachmentAnswers ==
  {[code |-> 200, items |-> n] : n \in 0..MaxAttachments}
  \cup {[code |-> c, items |-> 0] : c \in {404, 401, 500}}

InProgressLists ==
  {<<>>,
   <<Form("f1", "inProgress", NoValue)>>,
   <<Form("f1", "inProgress", NoValue), Form("f2", "inProgress", NoValue)>>,
   <<Form("", "inProgress", NoValue), Form("f1", "inProgress", NoValue)>>}

InitCloseForms ==
  /\ DownloaderOff
  /\ SyncOff
  /\ ExtrasOff
  /\ script = "close_forms"
  /\ form_pc = "start"
  /\ acc_forms \in InProgressLists
  /\ candidates = <<>>
  /\ form_idx = 0
  /\ original_status = ""
  /\ attach_count = 0
  /\ http_log = <<>>
  /\ exit_code = "none"

\* lines 152-160: the list of the in-progress forms
FetchInProgressForms ==
  /\ script = "close_forms"
  /\ form_pc = "start"
  /\ \E code \in {200, 401, 503} :
       /\ http_log' = Append(http_log, Request("GET", "forms", "", "", code, Len(acc_forms)))
       /\ IF code # 200
            THEN form_pc' = "done" /\ exit_code' = 1 /\ UNCHANGED <<candidates, form_idx>>
          ELSE IF acc_forms = <<>>
            THEN form_pc' = "done" /\ exit_code' = 0 /\ UNCHANGED <<candidates, form_idx>>
          ELSE candidates' = acc_forms /\ form_idx' = 1 /\ form_pc' = "form"
                 /\ UNCHANGED exit_code
  /\ UNCHANGED <<script, acc_forms, original_status, attach_count, downloaderVars, syncVars, extraVars>>

\* lines 167-176: an item without an id is skipped
SkipItemWithoutId ==
  /\ script = "close_forms"
  /\ form_pc = "form"
  /\ candidates[form_idx].id = ""
  /\ FormAdvance(0)
  /\ UNCHANGED <<script, acc_forms, candidates, original_status, attach_count, http_log,
                 downloaderVars, syncVars, extraVars>>

\* lines 178-184 with count_form_attachments: 404 counts as zero, any other
\* status than 200 raises and the form is skipped
CountFormAttachments ==
  /\ script = "close_forms"
  /\ form_pc = "form"
  /\ candidates[form_idx].id # ""
  /\ \E answer \in AttachmentAnswers :
       /\ http_log' = Append(http_log, Request("GET", "attachments", candidates[form_idx].id,
                                               "", answer.code, answer.items))
       /\ IF answer.code \in {200, 404}
            THEN /\ attach_count' = IF answer.code = 200 THEN answer.items ELSE 0
                 /\ form_pc' = "decide"
                 /\ UNCHANGED <<form_idx, exit_code>>
            ELSE /\ FormAdvance(0)
                 /\ UNCHANGED attach_count
  /\ UNCHANGED <<script, acc_forms, candidates, original_status, downloaderVars, syncVars, extraVars>>

\* line 186: the number of attachments from which a form is closed
CloseThreshold == 1

\* lines 186-197 with close_form: PATCH status=closed
CloseForm ==
  /\ script = "close_forms"
  /\ form_pc = "decide"
  /\ attach_count >= CloseThreshold
  /\ \E code \in {200, 204, 409, 401, 500} :
       /\ http_log' = Append(http_log, Request("PATCH", "status", candidates[form_idx].id,
                                               "closed", code, 0))
       /\ acc_forms' = IF code \in {200, 204}
                         THEN SetStatus(acc_forms, candidates[form_idx].id, "closed")
                         ELSE acc_forms
  /\ FormAdvance(0)
  /\ UNCHANGED <<script, candidates, original_status, attach_count, downloaderVars, syncVars, extraVars>>

\* lines 198-200: too few attachments
SkipForm ==
  /\ script = "close_forms"
  /\ form_pc = "decide"
  /\ attach_count < CloseThreshold
  /\ FormAdvance(0)
  /\ UNCHANGED <<script, acc_forms, candidates, original_status, attach_count, http_log,
                 downloaderVars, syncVars, extraVars>>

NextCloseForms ==
  \/ FetchInProgressForms
  \/ SkipItemWithoutId
  \/ CountFormAttachments
  \/ CloseForm
  \/ SkipForm

SpecCloseForms == InitCloseForms /\ [][NextCloseForms]_vars

\* C21: a close request (PATCH status=closed) is sent for a form only after
\* the attachments API answered 200 with two or more attachments for it.
C21_ClosesOnlyWithTwoAttachments ==
  \A n \in 1..Len(http_log) :
    (http_log[n].method = "PATCH" /\ http_log[n].body = "closed") =>
      \E m \in 1..(n - 1) :
        /\ http_log[m].what = "attachments"
        /\ http_log[m].form = http_log[n].form
        /\ http_log[m].code = 200
        /\ http_log[m].items >= 2

(***************************************************************************)
(* update_field_acc.py                                                      *)
(***************************************************************************)
\* a record of work-inspections-disclaimers.json
Record(accFormId, response) == [id |-> accFormId, response |-> response]

InputRecords ==
  {<<Record("f1", <<"x">>)>>,
   <<Record("f1", <<"x">>), Record("f2", <<"y", " ">>)>>,
   <<Record("", <<"x">>), Record("f1", <<" ">>), Record("f2", <<"y">>)>>}

Statuses == {"inProgress", "closed", "inReview", ""}

InitUpdateField ==
  /\ DownloaderOff
  /\ SyncOff
  /\ ExtrasOff
  /\ script = "update_field_acc"
  /\ form_pc = "start"
  /\ acc_forms \in {<<Form("f1", s1, NoValue), Form("f2", s2, NoValue)>> :
                      s1 \in Statuses, s2 \in {"closed", "inProgress"}}
  /\ candidates \in InputRecords
  /\ form_idx = 0
  /\ original_status = ""
  /\ attach_count = 0
  /\ http_log = <<>>
  /\ exit_code = 0

\* the form of the server that the current candidate names
CurrentId == candidates[form_idx].id

ServerForm(id) == acc_forms[CHOOSE n \in 1..Len(acc_forms) : acc_forms[n].id = id]

SetTextVal(forms, id, text) ==
  [n \in 1..Len(forms) |-> IF forms[n].id = id THEN [forms[n] EXCEPT !.textVal = Str(text)]
                           ELSE forms[n]]

\* _update_one_form returned ok: the loop of main moves on, main returns 0
\* when no form failed and 1 otherwise
NextCandidate(ok) ==
  /\ form_idx' = form_idx + 1
  /\ form_pc' = IF form_idx + 1 > Len(candidates) THEN "done" ELSE "form"
  /\ exit_code' = IF ok THEN exit_code ELSE 1

\* a RuntimeError (401) that nothing catches ends main
Raised ==
  /\ form_pc' = "done"
  /\ exit_code' = "raised"
  /\ UNCHANGED form_idx

\* lines 247-260: the records with a form id and a non-blank response
LoadInputRecords ==
  /\ script = "update_field_acc"
  /\ form_pc = "start"
  /\ candidates' = SelectSeq([n \in 1..Len(candidates) |->
                                Record(candidates[n].id, Strip(candidates[n].response))],
                             LAMBDA rec : rec.id # "" /\ rec.response # <<>>)
  /\ form_idx' = 1
  /\ form_pc' = IF candidates' = <<>> THEN "done" ELSE "form"
  /\ UNCHANGED <<script, acc_forms, original_status, attach_count, http_log, exit_code,
                 downloaderVars, syncVars, extraVars>>

\* lines 193-210: the details of the form; a failed GET or a form without
\* formTemplateId makes _update_one_form return False
GetFormDetails ==
  /\ script = "update_field_acc"
  /\ form_pc = "form"
  /\ \E code \in {200, 401, 404}, template \in BOOLEAN :
       LET status == IF ServerForm(CurrentId).status = "" THEN "inProgress"
                     ELSE ServerForm(CurrentId).status
       IN /\ code # 200 => template
          /\ http_log' = Append(http_log, Request("GET", "details", CurrentId,
                                                  IF code = 200 THEN status ELSE "", code, 0))
          /\ IF code # 200 \/ ~template
               THEN NextCandidate(FALSE) /\ UNCHANGED original_status
               ELSE /\ original_status' = status
                    /\ form_pc' = IF status # "inProgress" THEN "reopen" ELSE "update"
                    /\ UNCHANGED <<form_idx, exit_code>>
  /\ UNCHANGED <<script, acc_forms, candidates, attach_count, downloaderVars, syncVars, extraVars>>

\* lines 213-215: PATCH status=inProgress
ReopenForm ==
  /\ script = "update_field_acc"
  /\ form_pc = "reopen"
  /\ \E code \in {200, 204, 401, 409} :
       /\ http_log' = Append(http_log, Request("PATCH", "status", CurrentId,
                                               "inProgress", code, 0))
       /\ IF code \in {200, 204}
            THEN /\ acc_forms' = SetStatus(acc_forms, CurrentId, "inProgress")
                 /\ form_pc' = "update"
                 /\ UNCHANGED <<form_idx, exit_code>>
          ELSE IF code = 401 THEN Raised /\ UNCHANGED acc_forms
          ELSE NextCandidate(FALSE) /\ UNCHANGED acc_forms
  /\ UNCHANGED <<script, candidates, original_status, attach_count, downloaderVars, syncVars, extraVars>>

\* lines 218-223: PUT values:batch-update
UpdateValue ==
  /\ script = "update_field_acc"
  /\ form_pc = "update"
  /\ \E code \in {200, 401, 400} :
       /\ http_log' = Append(http_log, Request("PUT", "values", CurrentId,
                                               "textVal", code, 0))
       /\ IF code = 200
            THEN /\ acc_forms' = SetTextVal(acc_forms, CurrentId, candidates[form_idx].response)
                 /\ IF original_status # "inProgress"
                      THEN form_pc' = "restore" /\ UNCHANGED <<form_idx, exit_code>>
                      ELSE NextCandidate(TRUE)
          ELSE IF code = 401 THEN Raised /\ UNCHANGED acc_forms
          ELSE /\ UNCHANGED acc_forms
               /\ IF original_status # "inProgress"
                    THEN form_pc' = "restore_failed" /\ UNCHANGED <<form_idx, exit_code>>
                    ELSE NextCandidate(FALSE)
  /\ UNCHANGED <<script, candidates, original_status, attach_count, downloaderVars, syncVars, extraVars>>

\* lines 220-222 and 225-227: PATCH status=original_status
RestoreStatus ==
  /\ script = "update_field_acc"
  /\ form_pc \in {"restore", "restore_failed"}
  /\ \E code \in {200, 401, 409} :
       /\ http_log' = Append(http_log, Request("PATCH", "status", CurrentId,
                                               original_status, code, 0))
       /\ IF code = 200
            THEN /\ acc_forms' = SetStatus(acc_forms, CurrentId, original_status)
                 /\ NextCandidate(form_pc = "restore")
          ELSE IF code = 401 THEN Raised /\ UNCHANGED acc_forms
          ELSE NextCandidate(FALSE) /\ UNCHANGED acc_forms
  /\ UNCHANGED <<script, candidates, original_status, attach_count, downloaderVars, syncVars, extraVars>>

NextUpdateField ==
  \/ LoadInputRecords
  \/ GetFormDetails
  \/ ReopenForm
  \/ UpdateValue
  \/ RestoreStatus

SpecUpdateField == InitUpdateField /\ [][NextUpdateField]_vars

\* the form of request n is no longer being worked on
LeftForm(n) ==
  form_pc = "done" \/ (form_pc = "form" /\ CurrentId # http_log[n].form)

\* C22: once _update_one_form has left a form that it reopened (PATCH
\* status=inProgress answered 200/204), the log holds, after that PATCH, an
\* update attempt (PUT) and after it a PATCH with the form's original status.
C22_ReopenedFormIsRestored ==
  \A n \in 1..Len(http_log) :
    (/\ http_log[n].method = "PATCH"
     /\ http_log[n].body = "inProgress"
     /\ http_log[n].code \in {200, 204}
     /\ LeftForm(n)) =>
      \E g \in 1..(n - 1), p \in (n + 1)..Len(http_log), q \in (n + 2)..Len(http_log) :
        /\ http_log[g].what = "details" /\ http_log[g].form = http_log[n].form
        /\ http_log[p].method = "PUT" /\ http_log[p].form = http_log[n].form
        /\ p < q
        /\ http_log[q].method = "PATCH" /\ http_log[q].form = http_log[n].form
        /\ http_log[q].body = http_log[g].body
        /\ http_log[q].body # "inProgress"

(***************************************************************************)
(* update_desclaimer_comment.py                                             *)
(***************************************************************************)
HARD_CODED_FORM_ID    == "f1"
HARD_CODED_TEXT_VALUE == <<"y", "e", "s">>

\* textVal of the field on the server; NoValue also stands for a form
\* without the field (find_field_value returns None in both cases)
FieldValues == {NoValue, Str(<<>>), Str(<<" ">>), Str(<<"x">>), Str(<<" ", "x">>)}

\* line 175
has_value(textVal) == Strip(textVal.text) # <<>>

InitDisclaimer ==
  /\ DownloaderOff
  /\ SyncOff
  /\ ExtrasOff
  /\ script = "update_desclaimer_comment"
  /\ form_pc = "start"
  /\ acc_forms \in {<<Form(HARD_CODED_FORM_ID, s1, v)>> : s1 \in Statuses, v \in FieldValues}
  /\ candidates = <<>>
  /\ form_idx = 0
  /\ original_status = ""
  /\ attach_count = 0
  /\ http_log = <<>>
  /\ exit_code = "none"

\* main returns code
Return(code) ==
  /\ form_pc' = "done"
  /\ exit_code' = code

\* lines 162-192 without the test of has_value
CheckFieldAlwaysUpdates ==
  /\ script = "update_desclaimer_comment"
  /\ form_pc = "start"
  /\ \E code \in {200, 401, 500}, template \in BOOLEAN :
       /\ code # 200 => template
       /\ http_log' = Append(http_log, Request("GET", "details", HARD_CODED_FORM_ID,
                                               IF code = 200 THEN acc_forms[1].status ELSE "",
                                               code, 0))
       /\ IF code # 200 \/ ~template
            THEN Return(1) /\ UNCHANGED original_status
          ELSE /\ original_status' = acc_forms[1].status
               /\ form_pc' = IF acc_forms[1].status # "inProgress" THEN "reopen" ELSE "update"
               /\ UNCHANGED exit_code
  /\ UNCHANGED <<script, acc_forms, candidates, form_idx, attach_count,
                 downloaderVars, syncVars, extraVars>>

\* lines 162-189: the details of the form; nothing is sent when the field
\* already holds text
CheckField ==
  /\ script = "update_desclaimer_comment"
  /\ form_pc = "start"
  /\ \E code \in {200, 401, 500}, template \in BOOLEAN :
       /\ code # 200 => template
       /\ http_log' = Append(http_log, Request("GET", "details", HARD_CODED_FORM_ID,
                                               IF code = 200 THEN acc_forms[1].status ELSE "",
                                               code, 0))
       /\ IF code # 200 \/ ~template
            THEN Return(1) /\ UNCHANGED original_status
          ELSE IF has_value(acc_forms[1].textVal)
            THEN Return(0) /\ UNCHANGED original_status
          ELSE /\ original_status' = acc_forms[1].status
               /\ form_pc' = IF acc_forms[1].status # "inProgress" THEN "reopen" ELSE "update"
               /\ UNCHANGED exit_code
  /\ UNCHANGED <<script, acc_forms, candidates, form_idx, attach_count,
                 downloaderVars, syncVars, extraVars>>

\* lines 189-192: PATCH status=inProgress
ReopenForUpdate ==
  /\ script = "update_desclaimer_comment"
  /\ form_pc = "reopen"
  /\ \E code \in {200, 204, 401, 409} :
       /\ http_log' = Append(http_log, Request("PATCH", "status", HARD_CODED_FORM_ID,
                                               "inProgress", code, 0))
       /\ IF code \in {200, 204}
            THEN /\ acc_forms' = SetStatus(acc_forms, HARD_CODED_FORM_ID, "inProgress")
                 /\ form_pc' = "update"
                 /\ UNCHANGED exit_code
          ELSE IF code = 401 THEN Return("raised") /\ UNCHANGED acc_forms
          ELSE Return(1) /\ UNCHANGED acc_forms
  /\ UNCHANGED <<script, candidates, form_idx, original_status, attach_count,
                 downloaderVars, syncVars, extraVars>>

\* lines 195-197: PUT values:batch-update
UpdateField ==
  /\ script = "update_desclaimer_comment"
  /\ form_pc = "update"
  /\ \E code \in {200, 202, 401, 400} :
       /\ http_log' = Append(http_log, Request("PUT", "values", HARD_CODED_FORM_ID,
                                               "textVal", code, 0))
       /\ IF code \in {200, 201, 202, 204}
            THEN /\ acc_forms' = SetTextVal(acc_forms, HARD_CODED_FORM_ID, HARD_CODED_TEXT_VALUE)
                 /\ form_pc' = "close"
                 /\ UNCHANGED exit_code
          ELSE IF code = 401 THEN Return("raised") /\ UNCHANGED acc_forms
          ELSE Return(1) /\ UNCHANGED acc_forms
  /\ UNCHANGED <<script, candidates, form_idx, original_status, attach_count,
                 downloaderVars, syncVars, extraVars>>

\* lines 200-205: PATCH status=closed
CloseAgain ==
  /\ script = "update_desclaimer_comment"
  /\ form_pc = "close"
  /\ \E code \in {200, 204, 401, 409} :
       /\ http_log' = Append(http_log, Request("PATCH", "status", HARD_CODED_FORM_ID,
                                               "closed", code, 0))
       /\ IF code \in {200, 204}
            THEN /\ acc_forms' = SetStatus(acc_forms, HARD_CODED_FORM_ID, "closed")
                 /\ Return(0)
          ELSE IF code = 401 THEN Return("raised") /\ UNCHANGED acc_forms
          ELSE Return(1) /\ UNCHANGED acc_forms
  /\ UNCHANGED <<script, candidates, form_idx, original_status, attach_count,
                 downloaderVars, syncVars, extraVars>>

NextDisclaimer ==
  \/ CheckField
  \/ ReopenForUpdate
  \/ UpdateField
  \/ CloseAgain

SpecDisclaimer == InitDisclaimer /\ [][NextDisclaimer]_vars

\* the request a step sends
Sent == http_log'[Len(http_log')]

Accepted(req) == req.code \in {200, 201, 202, 204}

\* what a step of update_desclaimer_comment may do, by the request it sends
DisclaimerStep ==
  /\ form_pc # "done"
  /\ http_log' = Append(http_log, Sent)
  /\ Sent.method = "GET" =>
       /\ http_log = <<>>
       /\ has_value(acc_forms[1].textVal) => (form_pc' = "done" /\ acc_forms' = acc_forms)
  /\ (Sent.method = "PATCH" /\ Sent.body = "inProgress") =>
       /\ ~has_value(acc_forms[1].textVal)
       /\ Len(http_log) = 1
       /\ http_log[1].method = "GET" /\ http_log[1].code = 200
       /\ http_log[1].body # "inProgress"
       /\ acc_forms[1].status # "inProgress"
  /\ Sent.method = "PUT" =>
       /\ ~has_value(acc_forms[1].textVal)
       /\ \/ /\ Len(http_log) = 1
             /\ http_log[1].method = "GET" /\ http_log[1].body = "inProgress"
          \/ /\ Len(http_log) = 2
             /\ http_log[1].body # "inProgress"
             /\ http_log[2].method = "PATCH" /\ http_log[2].body = "inProgress"
             /\ Accepted(http_log[2])
  /\ (Sent.method = "PATCH" /\ Sent.body # "inProgress") =>
       /\ Sent.body = "closed"
       /\ http_log[Len(http_log)].method = "PUT"
       /\ Accepted(http_log[Len(http_log)])

\* C23: when the field already holds non-blank text the only request is the
\* GET and the form is left as it is; otherwise the requests come in the
\* order reopen (only when the status is not inProgress), update, close, and
\* no update follows a failed reopen.
C23_UpdatesOnlyEmptyField == [][DisclaimerStep]_vars

\* a run that found text in the field and ended after the GET
C23_Witness ==
  /\ script = "update_desclaimer_comment"
  /\ form_pc = "done"
  /\ Len(http_log) = 1
  /\ http_log[1].code = 200
  /\ has_value(acc_forms[1].textVal)
  /\ acc_forms[1].status = "closed"

(***************************************************************************)
(* _retryable_request: close_forms.py, fetch_items.py, update_field_acc.py, *)
(* update_desclaimer_comment.py                                             *)
(***************************************************************************)
RequestsHelpers == {"close_forms", "fetch_items", "update_field_acc",
                    "update_desclaimer_comment"}

\* MAX_RETRIES of each script
MAX_RETRIES(h) ==
  CASE h \in {"close_forms", "fetch_items"} -> 3
    [] h \in {"update_field_acc", "update_desclaimer_comment"} -> 4
    [] OTHER -> 5

RetryableStatuses == {429, 500, 502, 503, 504}

\* what requests.request does: a response with a status, or an exception
\* (ConnectionError, Timeout) that the wrapper does not catch
Outcome(exc, status) == [exc |-> exc, status |-> status]

RequestOutcomes ==
  {Outcome(FALSE, st) : st \in RetryableStatuses \cup {200, 404}} \cup {Outcome(TRUE, None)}

\* the Retry-After header of a response: absent, a number of seconds, text
\* that float() rejects, a negative number that time.sleep rejects
RetryAfterValues == {"absent", "seconds", "text", "negative"}

InitRetry ==
  /\ DownloaderOff
  /\ SyncOff
  /\ FormsOff
  /\ WalkOff
  /\ helper \in RequestsHelpers
  /\ helper_pc = "request"
  /\ attempt = 1
  /\ resp_status = None
  /\ tries = <<>>
  /\ result = <<>>

\* the loop body with every status retried
SendRequestRetriesAll ==
  /\ helper \in RequestsHelpers
  /\ helper_pc = "request"
  /\ attempt <= MAX_RETRIES(helper)
  /\ \E out \in RequestOutcomes :
       /\ tries' = Append(tries, out)
       /\ IF out.exc
            THEN /\ helper_pc' = "raised"
                 /\ result' = <<"raised">>
                 /\ UNCHANGED resp_status
          ELSE /\ resp_status' = out.status
               /\ IF attempt < MAX_RETRIES(helper)
                    THEN helper_pc' = "sleep" /\ UNCHANGED result
                    ELSE helper_pc' = "returned" /\ result' = <<"returned", out.status>>
  /\ UNCHANGED <<attempt, helper, downloaderVars, syncVars, formVars, walkVars>>

\* one pass of the loop up to the sleep: the request and the test of its status
SendRequest ==
  /\ helper \in RequestsHelpers
  /\ helper_pc = "request"
  /\ attempt <= MAX_RETRIES(helper)
  /\ \E out \in RequestOutcomes :
       /\ tries' = Append(tries, out)
       /\ IF out.exc
            THEN /\ helper_pc' = "raised"
                 /\ result' = <<"raised">>
                 /\ UNCHANGED resp_status
          ELSE /\ resp_status' = out.status
               /\ IF out.status \in RetryableStatuses /\ attempt < MAX_RETRIES(helper)
                    THEN helper_pc' = "sleep" /\ UNCHANGED result
                    ELSE helper_pc' = "returned" /\ result' = <<"returned", out.status>>
  /\ UNCHANGED <<attempt, helper, downloaderVars, syncVars, formVars, walkVars>>

\* the wait before the next pass; time.sleep raises ValueError on a negative
\* Retry-After
Backoff ==
  /\ helper \in RequestsHelpers
  /\ helper_pc = "sleep"
  /\ \E retry_after \in RetryAfterValues :
       IF retry_after = "negative"
         THEN /\ helper_pc' = "raised"
              /\ result' = <<"raised">>
              /\ UNCHANGED attempt
         ELSE /\ helper_pc' = "request"
              /\ attempt' = attempt + 1
              /\ UNCHANGED result
  /\ UNCHANGED <<helper, resp_status, tries, downloaderVars, syncVars, formVars, walkVars>>

NextRetry ==
  \/ SendRequest
  \/ Backoff

\* the loop is sequential code: each request and each sleep ends
SpecRetry == InitRetry /\ [][NextRetry]_vars /\ WF_vars(NextRetry)

CallEnded == helper_pc \in {"returned", "raised"}

RetryBounds ==
  /\ Len(tries) <= MAX_RETRIES(helper)
  /\ \A n \in 1..Len(tries) :
       n < Len(tries) => (~tries[n].exc /\ tries[n].status \in RetryableStatuses)
  /\ (tries # <<>> /\ ~tries[Len(tries)].exc
        /\ tries[Len(tries)].status \notin RetryableStatuses) =>
       helper_pc = "returned"
  /\ helper_pc = "returned" =>
       /\ Len(tries) >= 1
       /\ ~tries[Len(tries)].exc
       /\ result = <<"returned", tries[Len(tries)].status>>
       /\ tries[Len(tries)].status \in RetryableStatuses => Len(tries) = MAX_RETRIES(helper)
  /\ CallEnded => Len(tries) >= 1

\* C24: a call of _retryable_request ends after 1..MAX_RETRIES requests; a
\* request follows only a response with status 429/500/502/503/504, any other
\* status is returned at once, and the response returned is the last one
\* (also after MAX_RETRIES retryable responses).
C24_RetryWrapperIsBounded == []RetryBounds /\ <>CallEnded

\* MAX_RETRIES retryable responses, the last of them returned
C24_Witness ==
  /\ helper = "update_field_acc"
  /\ helper_pc = "returned"
  /\ Len(tries) = MAX_RETRIES(helper)
  /\ result = <<"returned", 503>>

(***************************************************************************)
(* _request_json and _get_json: set_custom_attribute.py,                    *)
(* set_custom_attribute_recursive.py                                        *)
(***************************************************************************)
UrllibHelpers == {"_request_json", "_get_json"}

RetryableErrors == {408, 429, 500, 502, 503, 504}

\* what one urlopen and the read of its body do: a body (JSON text, nothing,
\* text that json.loads rejects), an HTTPError with a status, a URLError, or
\* another exception (socket.timeout while reading)
UrlOutcome(kind, status) == [kind |-> kind, status |-> status]

UrlOutcomes ==
  {UrlOutcome(k, 200) : k \in {"json", "empty", "garbage"}}
    \cup {UrlOutcome("HTTPError", st) : st \in RetryableErrors \cup {401, 404}}
    \cup {UrlOutcome("URLError", None), UrlOutcome("timeout", None)}

InitUrllib ==
  /\ DownloaderOff
  /\ SyncOff
  /\ FormsOff
  /\ WalkOff
  /\ helper \in UrllibHelpers
  /\ helper_pc = "request"
  /\ attempt = 1
  /\ resp_status = None
  /\ tries = <<>>
  /\ result = <<>>

\* the end of a pass that caught an error and slept
NextPass ==
  /\ attempt' = attempt + 1
  /\ helper_pc' = IF attempt + 1 > MAX_RETRIES(helper) THEN "fell_through" ELSE "request"
  /\ result' = IF attempt + 1 > MAX_RETRIES(helper) THEN <<"returned", "{}">> ELSE result

Raise(out) ==
  /\ helper_pc' = "raised"
  /\ result' = <<"raised", out>>
  /\ UNCHANGED attempt

ReturnBody(body) ==
  /\ helper_pc' = "returned"
  /\ result' = <<"returned", body>>
  /\ UNCHANGED attempt

\* a pass whose handlers never give up on a retryable error
UrlopenPassNeverGivesUp(h) ==
  /\ helper = h
  /\ helper_pc = "request"
  /\ attempt <= MAX_RETRIES(helper)
  /\ \E out \in UrlOutcomes :
       /\ tries' = Append(tries, out)
       /\ resp_status' = out.status
       /\ CASE out.kind = "json" -> ReturnBody("parsed")
            [] out.kind = "empty" ->
                 IF h = "_request_json" THEN ReturnBody("{}") ELSE Raise(out)
            [] out.kind = "HTTPError" ->
                 IF out.status \notin RetryableErrors
                   THEN Raise(out)
                   ELSE NextPass
            [] out.kind = "URLError" -> NextPass
            [] OTHER -> Raise(out)
  /\ UNCHANGED <<helper, downloaderVars, syncVars, formVars, walkVars>>

\* one pass of the loop: the request, the read of the body, the handlers
UrlopenPass(h) ==
  /\ helper = h
  /\ helper_pc = "request"
  /\ attempt <= MAX_RETRIES(helper)
  /\ \E out \in UrlOutcomes :
       /\ tries' = Append(tries, out)
       /\ resp_status' = out.status
       /\ CASE out.kind = "json" -> ReturnBody("parsed")
            [] out.kind = "empty" ->
                 IF h = "_request_json" THEN ReturnBody("{}") ELSE Raise(out)
            [] out.kind = "HTTPError" ->
                 IF out.status \notin RetryableErrors \/ attempt = MAX_RETRIES(helper)
                   THEN Raise(out)
                   ELSE NextPass
            [] out.kind = "URLError" ->
                 IF attempt = MAX_RETRIES(helper) THEN Raise(out) ELSE NextPass
            [] OTHER -> Raise(out)
  /\ UNCHANGED <<helper, downloaderVars, syncVars, formVars, walkVars>>

request_json == UrlopenPass("_request_json")

get_json == UrlopenPass("_get_json")

NextUrllib ==
  \/ request_json
  \/ get_json

SpecUrllib == InitUrllib /\ [][NextUrllib]_vars

IsRetryableError(out) ==
  \/ out.kind = "URLError"
  \/ out.kind = "HTTPError" /\ out.status \in RetryableErrors

LastTry == tries[Len(tries)]

\* C25: _request_json and _get_json make at most MAX_RETRIES attempts; an
\* HTTP error with a status outside {408, 429, 500, 502, 503, 504} is raised
\* by the attempt that met it, a retryable HTTP error or a URLError is retried
\* and raised when it is met on attempt MAX_RETRIES, a call returns the body
\* of a successful attempt or raises, and the return after the loop is never
\* reached.
C25_UrllibHelpersReturnOrRaise ==
  /\ Len(tries) <= MAX_RETRIES(helper)
  /\ \A n \in 1..Len(tries) : n < Len(tries) => IsRetryableError(tries[n])
  /\ helper_pc # "fell_through"
  /\ (tries # <<>> /\ LastTry.kind = "HTTPError" /\ LastTry.status \notin RetryableErrors) =>
       (helper_pc = "raised" /\ result = <<"raised", LastTry>>)
  /\ (Len(tries) = MAX_RETRIES(helper) /\ IsRetryableError(LastTry)) =>
       (helper_pc = "raised" /\ result = <<"raised", LastTry>>)
  /\ (tries # <<>> /\ IsRetryableError(LastTry) /\ Len(tries) < MAX_RETRIES(helper)) =>
       (helper_pc = "request" /\ attempt = Len(tries) + 1)
  /\ helper_pc = "returned" =>
       /\ tries # <<>>
       /\ LastTry.kind \in {"json", "empty"}
       /\ result = <<"returned", IF LastTry.kind = "json" THEN "parsed" ELSE "{}">>
  /\ helper_pc = "raised" => (tries # <<>> /\ result = <<"raised", LastTry>>)

\* MAX_RETRIES retryable errors in a row: the last one is raised
C25_Witness ==
  /\ helper = "_get_json"
  /\ helper_pc = "raised"
  /\ Len(tries) = MAX_RETRIES(helper)
  /\ LastTry.kind = "URLError"
  /\ tries[1].kind = "HTTPError"

(***************************************************************************)
(* gather_all_items_recursive: set_custom_attribute_recursive.py            *)
(***************************************************************************)
root_folder_urn == "r"

FolderUrns == {"r", "a", "b", "c"}

\* displayName of a folder
FolderName(urn) == <<urn>>

\* a folder of a listing; id "" stands for a folder dict without an id
Sub(urn) == [id |-> urn, name |-> FolderName(urn)]

NoIdSub == [id |-> "", name |-> <<"n">>]

Folder(subs, items) == [subs |-> subs, items |-> items]

\* folder graphs: trees, folders with two parents, cycles back to the root
\* or between siblings, a subfolder without an id; every folder but "c"
\* holds an item, "b" holds one with the name of the item of "a"
FolderGraphs ==
  {[urn \in FolderUrns |->
      CASE urn = "r" -> Folder(sr, <<"x">>)
        [] urn = "a" -> Folder(sa, <<"y">>)
        [] urn = "b" -> Folder(sb, <<"y", "z">>)
        [] OTHER     -> Folder(sc, <<>>)] :
     sr \in {<<Sub("a")>>, <<Sub("a"), Sub("b")>>, <<Sub("b"), NoIdSub, Sub("a")>>},
     sa \in {<<>>, <<Sub("b")>>, <<Sub("r")>>, <<Sub("b"), Sub("c")>>},
     sb \in {<<>>, <<Sub("a")>>, <<Sub("c")>>},
     sc \in {<<>>, <<Sub("r")>>}}

InitWalk ==
  /\ DownloaderOff
  /\ SyncOff
  /\ FormsOff
  /\ RetryOff
  /\ walk_pc = "walk"
  /\ graph \in FolderGraphs
  /\ stack = <<<<root_folder_urn, <<>>>>>>
  /\ visited = {}
  /\ items_accum = <<>>
  /\ listed = <<>>

\* lines 223-229 with key_path = name
AnnotateNameOnly(urn, rel_path) ==
  [k \in 1..Len(graph[urn].items) |->
     [folder |-> urn, displayName |-> <<graph[urn].items[k]>>,
      keyPath |-> <<graph[urn].items[k]>>,
      nameLower |-> Lower(Strip(<<graph[urn].items[k]>>))]]

\* lines 223-229: the items of a listing with keyPath and nameLower
Annotate(urn, rel_path) ==
  [k \in 1..Len(graph[urn].items) |->
     [folder |-> urn, displayName |-> <<graph[urn].items[k]>>,
      keyPath |-> KeyPath(rel_path, <<graph[urn].items[k]>>),
      nameLower |-> Lower(Strip(<<graph[urn].items[k]>>))]]

\* lines 231-236: the stack entries of the subfolders that have an id
Pushed(urn, rel_path) ==
  LET withId == SelectSeq(graph[urn].subs, LAMBDA f : f.id # "")
  IN [k \in 1..Len(withId) |-> <<withId[k].id, KeyPath(rel_path, withId[k].name)>>]

\* lines 216-236: one pass of `while stack`
VisitFolder ==
  /\ walk_pc = "walk"
  /\ stack # <<>>
  /\ LET folder_urn == stack[Len(stack)][1]
         rel_path   == stack[Len(stack)][2]
         rest       == SubSeq(stack, 1, Len(stack) - 1)
     IN IF folder_urn \in visited
          THEN /\ stack' = rest
               /\ UNCHANGED <<visited, items_accum, listed>>
          ELSE /\ visited' = visited \cup {folder_urn}
               /\ listed' = Append(listed, <<folder_urn, rel_path>>)
               /\ items_accum' = items_accum \o Annotate(folder_urn, rel_path)
               /\ stack' = rest \o Pushed(folder_urn, rel_path)
  /\ UNCHANGED <<walk_pc, graph, downloaderVars, syncVars, formVars, retryVars>>

\* lines 182-187: a listing raises and the exception leaves the walk
ListingFails ==
  /\ walk_pc = "walk"
  /\ stack # <<>>
  /\ stack[Len(stack)][1] \notin visited
  /\ walk_pc' = "raised"
  /\ visited' = visited \cup {stack[Len(stack)][1]}
  /\ stack' = SubSeq(stack, 1, Len(stack) - 1)
  /\ UNCHANGED <<graph, items_accum, listed, downloaderVars, syncVars, formVars, retryVars>>

\* line 237
ReturnItems ==
  /\ walk_pc = "walk"
  /\ stack = <<>>
  /\ walk_pc' = "returned"
  /\ UNCHANGED <<graph, stack, visited, items_accum, listed,
                 downloaderVars, syncVars, formVars, retryVars>>

NextWalk ==
  \/ VisitFolder
  \/ ListingFails
  \/ ReturnItems

\* the loop is sequential code and every listing ends
SpecWalk == InitWalk /\ [][NextWalk]_vars /\ WF_vars(NextWalk)

\* the folders that can be reached from the root through subfolders with an id
RECURSIVE ReachableFrom(_, _)
ReachableFrom(seen, n) ==
  IF n = 0 THEN seen
  ELSE ReachableFrom(seen \cup ({f.id : f \in UNION {Range(graph[u].subs) : u \in seen}}
                                  \ {""}), n - 1)

Reachable == ReachableFrom({root_folder_urn}, Cardinality(FolderUrns))

\* rel_path is the path of names along a chain of subfolders from the root to urn
IsPathTo(urn, rel_path) ==
  \E n \in 1..Cardinality(FolderUrns) : \E chain \in [1..n -> FolderUrns] :
    /\ chain[1] = root_folder_urn
    /\ chain[n] = urn
    /\ \A k \in 1..(n - 1) : Sub(chain[k + 1]) \in Range(graph[chain[k]].subs)
    /\ Len(rel_path) = IF n = 1 THEN 0 ELSE 2 * (n - 1) - 1
    /\ \A k \in 2..n : rel_path[2 * (k - 1) - 1] = chain[k]
    /\ \A k \in 2..(n - 1) : rel_path[2 * (k - 1)] = "/"

ListingOf(urn) == CHOOSE k \in 1..Len(listed) : listed[k][1] = urn

WalkInvariant ==
  /\ \A k, m \in 1..Len(listed) : listed[k][1] = listed[m][1] => k = m
  /\ \A k \in 1..Len(listed) : IsPathTo(listed[k][1], listed[k][2])
  /\ walk_pc = "returned" =>
       /\ {listed[k][1] : k \in 1..Len(listed)} = Reachable
       /\ \A u \in Reachable : \A name \in Range(graph[u].items) :
            Cardinality({k \in 1..Len(items_accum) :
                           /\ items_accum[k].folder = u
                           /\ items_accum[k].displayName = <<name>>}) = 1
       /\ \A k \in 1..Len(items_accum) :
            /\ items_accum[k].folder \in Reachable
            /\ items_accum[k].displayName[1] \in Range(graph[items_accum[k].folder].items)
            /\ items_accum[k].keyPath =
                 KeyPath(listed[ListingOf(items_accum[k].folder)][2],
                         items_accum[k].displayName)

WalkEnded == walk_pc \in {"returned", "raised"}

\* C26: gather_all_items_recursive lists every folder urn at most once, ends
\* on every finite folder graph (shared subfolders and cycles included), and
\* returns every item of every folder reachable from the root once per folder
\* it is listed in, with the keyPath of the path by which its folder was
\* first popped.
C26_WalkVisitsEachFolderOnce == []WalkInvariant /\ <>WalkEnded

\* a returned walk of a graph where "b" is a subfolder of "r" and of "a" and
\* "a" is a subfolder of "b": "b" is popped first, so "a" is listed below it
C26_Witness ==
  /\ walk_pc = "returned"
  /\ Sub("b") \in Range(graph["r"].subs)
  /\ Sub("b") \in Range(graph["a"].subs)
  /\ Sub("a") \in Range(graph["b"].subs)
  /\ \E k \in 1..Len(items_accum) : items_accum[k].keyPath = <<"b", "/", "a", "/", "y">>

(***************************************************************************)
(* the pairing of Test and Live items by the recursive sync                 *)
(***************************************************************************)
NameKey(it) == Lower(Strip(it.displayName))

LiveItemOf(urn) == CHOOSE l \in Range(live_items) : l.id = urn

\* the Test item has a Live item at its keyPath: phase A pairs the two
MatchedByPath(t) == \E l \in Range(live_items) : l.keyPath = t.keyPath

\* the updates of Live items that no Test item matches by keyPath: phase B
FallbackUpdates(nm) ==
  {k \in 1..Len(updates) :
     /\ NameKey(LiveItemOf(updates[k].documentUrn)) = nm
     /\ ~\E t \in Range(test_items) : t.keyPath = LiveItemOf(updates[k].documentUrn).keyPath}

EachLiveUrnOnce ==
  \A k, m \in 1..Len(updates) : updates[k].documentUrn = updates[m].documentUrn => k = m

\* C27: the prepared updates pair Test and Live items one to one: a Live urn
\* is in one update at most, and the Live items paired by file name are no
\* more than the Test items of that name which phase A left unmatched.
C27_PairingIsOneToOne ==
  (variant = "recursive" /\ sync_pc \in {"prepared", "done"}) =>
    /\ EachLiveUrnOnce
    /\ \A nm \in {NameKey(l) : l \in Range(live_items)} :
         Cardinality(FallbackUpdates(nm))
           <= Cardinality({t \in Range(test_items) : NameKey(t) = nm /\ ~MatchedByPath(t)})

(***************************************************************************)
(* one destination folder per document                                      *)
(***************************************************************************)
DownloadsOn(r) == {f \in DiskFiles(r) : f.content.type = "download"}

\* a step that writes the body of a download puts it in a folder that holds
\* no download of another document (content.id = <<run, document, link>>)
WritesIntoOwnFolder ==
  \A f \in DownloadsOn(root') \ DownloadsOn(root) :
    (f.content.id = <<run, i, j>> /\ pc = "links") =>
      \A g \in DownloadsOn(root) : g.folder = f.folder => g.content.id[2] = f.content.id[2]

\* C28: in per-document mode download_files_from_links never writes a
\* document's file into a folder that already holds the downloads of another
\* document, in one run and across runs on the same destination.
C28_FolderHoldsOneDocument == [][WritesIntoOwnFolder]_vars

(***************************************************************************)
(* failed links and the files they leave                                    *)
(***************************************************************************)
\* C29: once a document is processed, a link of it that has a failure record
\* has no file in the destination, and every file the document added holds
\* the complete body of a successful download.
C29_FailedLinkLeavesNoFile ==
  \A d \in DOMAIN docState :
    (run >= 1 /\ pc # "idle" /\ docState[d] = "done") =>
      /\ \A k \in LinkIdx(d) : FailureRecordsOf(d, k) # {} => FilesOf(d, k) = {}
      /\ \A k \in LinkIdx(d) : \A f \in FilesOf(d, k) : f.content.complete

(***************************************************************************)
(* Documents whose links are answered with file names that are paths        *)
(***************************************************************************)
DocD == Document(<<"D",".","p","d","f">>, <<LinkD, LinkDots>>, FALSE)

SourceFoldersNames == {<<DocD>>, <<DocX, DocD>>}

InitNames ==
  /\ root = <<>>
  /\ pdf_files \in SourceFoldersNames
  /\ run = 0
  /\ pc = "idle"
  /\ i = 0
  /\ j = 0
  /\ failed = <<>>
  /\ all_failed_downloads = <<>>
  /\ file_summary = <<>>
  /\ gets = <<>>
  /\ docState = <<>>
  /\ downloaded = {}
  /\ faults = 0
  /\ folderOf = <<>>
  /\ source_exists = TRUE
  /\ dest_exists = FALSE
  /\ SyncOff
  /\ OthersOff

NextNames ==
  \/ StartRun
  \/ PdfMissing
  \/ ExtractFails
  \/ BeginDownloads
  \/ DownloadLink
  \/ OrganizeFolder
  \/ WriteReports

SpecNames == InitNames /\ [][NextNames]_vars

\* the names that os.path.join(folder, name) does not resolve to an entry of
\* the folder: the folder itself, its parent, a path with a separator
EscapesFolder(name) ==
  \/ name \in {<<>>, <<".">>, <<".", ".">>}
  \/ "/" \in Range(name)
  \/ "\\" \in Range(name)

\* the files a step adds are entries of the working folder of the document
WritesInsideFolder ==
  /\ \A f \in DownloadsOn(root') \ DownloadsOn(root) :
       f.folder = <<PositionalName(i)>> /\ ~EscapesFolder(f.name)
  /\ \A n \in DOMAIN root' \ DOMAIN root : ~EscapesFolder(n)

\* C30: every file download_files_from_links writes is an entry of the given
\* folder, whatever the Content-Disposition value or URL path: the names '',
\* '.', '..' and names with '/' or '\' never reach open().
C30_DownloadStaysInFolder == [][DownloadLink => WritesInsideFolder]_vars

\* the header filename=".." and the URL path /x/.. both downloaded: the
\* files are ".._1" and ".._2"
C30_Witness ==
  /\ pc = "links"
  /\ <<PositionalName(i)>> \in {f.folder : f \in DownloadsOn(root)}
  /\ {<<".", ".", "_", "1">>, <<".", ".", "_", "2">>} \subseteq DOMAIN root[PositionalName(i)].files

====
